---- MODULE Spec2Model ----
(***************************************************************************)
(* Herald: the OAuth 2.1 authorization server (src/src/oauth) and the MCP  *)
(* JSON-RPC session layer (src/src/mcp) as one state machine.              *)
(*                                                                         *)
(* The store (Aurora) is modelled as tables: a table is a function from    *)
(* the primary key of each stored row to the row.  A grant handler of the  *)
(* token endpoint is split at its writes to the store, so that concurrent  *)
(* Lambda invocations interleave exactly where the store lets them; the    *)
(* MCP endpoint is taken one request at a time.  Time is counted in        *)
(* minutes.  Text is modelled at the level of words: a scope string is a   *)
(* sequence of words and " " separators.                                   *)
(***************************************************************************)
EXTENDS Integers, Sequences, FiniteSets, TLC

VARIABLES
    now,                        \* the store's NOW() / datetime.now(), minutes
    ticks,                      \* how often the clock has advanced
    users,                      \* table users, by id
    oauth_clients,              \* table oauth_clients, by client_id
    oauth_authorization_codes,  \* table oauth_authorization_codes, by code
    oauth_refresh_tokens,       \* table oauth_refresh_tokens, by token_hash
    pc,                         \* per invocation: where its handler stands
    req,                        \* per invocation: the request it serves (or served last)
    local,                      \* per invocation: the row its handler read
    resp,                       \* per invocation: the response it returned last
    issued,                     \* every token response delivered so far
    mcp_sessions,               \* table mcp_sessions, by session_id
    mcp_req,                    \* the last request POSTed to /mcp
    mcp_resp,                   \* the response it got
    mcp_ran,                    \* the method handler and the tool handler it ran
    settings,                   \* table settings: the value under key 'jwt_secret'
    _jwt_secret,                \* per process: the module's cached signing secret
    secret_pc,                  \* per process: where its _get_jwt_secret stands
    signed,                     \* the access token signed last
    verified,                   \* the last verification of a token
    pkce                        \* a call of the PKCE functions: arguments and results

oauth_vars == <<users, oauth_clients, oauth_authorization_codes,
                oauth_refresh_tokens, pc, req, local, resp, issued>>
mcp_vars == <<mcp_sessions, mcp_req, mcp_resp, mcp_ran>>
secret_vars == <<settings, _jwt_secret, secret_pc, signed, verified>>
vars == <<now, ticks, oauth_vars, mcp_vars, secret_vars, pkce>>

(***************************************************************************)
(* Bounds of the model.                                                    *)
(***************************************************************************)
MaxCodes == 2       \* authorization codes issued in one behaviour
MaxRefresh == 3     \* refresh tokens stored in one behaviour
MaxTicks == 1       \* clock advances in one behaviour
MaxSessions == 1    \* MCP sessions created in one behaviour
MaxClients == 2     \* clients registered in one behaviour

(***************************************************************************)
(* Program constants.                                                      *)
(***************************************************************************)
authorization_code_expire_minutes == 10
access_token_expire_minutes == 60
refresh_token_expire_days == 30
SESSION_EXPIRY_HOURS == 24

\* SQL NULL in a timestamp column (used_at, revoked_at, last_login_at).
NULL == -1

Workers == {"w1", "w2"}     \* concurrent Lambda invocations of the OAuth handler

\* Lambda execution environments, each with its own module state.
Processes == {"p1", "p2", "p3"}

(***************************************************************************)
(* Text.                                                                   *)
(***************************************************************************)
\* str.split(): the words of a string, whitespace runs dropped.
split(s) == SelectSeq(s, LAMBDA w : w # " ")

\* " ".join(words)
RECURSIVE join(_)
join(ws) ==
    IF Len(ws) <= 1 THEN ws
    ELSE <<Head(ws), " ">> \o join(Tail(ws))

\* x in list
contains(list, x) == \E i \in DOMAIN list : list[i] = x

\* hashlib.sha256(token.encode()).hexdigest(): one-way, taken collision-free.
sha256(s) == "sha256:" \o s

\* bcrypt.hashpw / bcrypt.checkpw
bcrypt_hashpw(s) == "bcrypt:" \o s
bcrypt_checkpw(s, hash) == hash = bcrypt_hashpw(s)

\* base64.urlsafe_b64encode(hashlib.sha256(verifier).digest()).rstrip("=")
s256(verifier) == "s256:" \o verifier

(***************************************************************************)
(* oauth/pkce.py                                                           *)
(***************************************************************************)
pkce_method_supported_any(method) == TRUE

\* generate_code_challenge raises ValueError for these methods.
pkce_method_supported(method) == method \in {"plain", "S256"}

generate_code_challenge(verifier, method) ==
    IF method = "plain" THEN verifier
    ELSE IF method = "S256" THEN s256(verifier)
    ELSE "ValueError"

\* Text with a character outside ASCII.
NonAsciiText == {"v1_e_acute"}
is_ascii(s) == s \notin NonAsciiText

\* secrets.compare_digest on two str: TypeError unless both are ASCII.
compare_digest(a, b) ==
    IF ~is_ascii(a) \/ ~is_ascii(b) THEN "TypeError"
    ELSE IF a = b THEN "True"
    ELSE "False"

\* What a call of verify_code_challenge comes to: "True", "False", or the
\* exception it raises.
verify_code_challenge_outcome(verifier, challenge, method) ==
    IF ~pkce_method_supported(method) THEN "ValueError"
    ELSE compare_digest(generate_code_challenge(verifier, method), challenge)

verify_code_challenge(verifier, challenge, method) ==
    verify_code_challenge_outcome(verifier, challenge, method) = "True"

(***************************************************************************)
(* oauth/dcr.py                                                            *)
(***************************************************************************)
\* get_client: the row, when there is one.
has_client(client_id) == client_id \in DOMAIN oauth_clients
get_client(client_id) == oauth_clients[client_id]

verify_client_secret(client_id, client_secret) ==
    IF ~has_client(client_id) THEN FALSE
    ELSE IF ~get_client(client_id).is_active THEN FALSE
    ELSE IF get_client(client_id).client_secret_hash = "" THEN FALSE
    ELSE bcrypt_checkpw(client_secret, get_client(client_id).client_secret_hash)

(***************************************************************************)
(* oauth/users.py                                                          *)
(***************************************************************************)
has_user(user_id) == user_id \in DOMAIN users
get_user(user_id) == users[user_id]

\* The id of the authenticated user, "" for None.
authenticate_user(email, password) ==
    LET found == {u \in DOMAIN users : users[u].email = email} IN
    IF found = {} THEN ""
    ELSE LET u == CHOOSE x \in found : TRUE IN
         IF ~users[u].is_active THEN ""
         ELSE IF ~bcrypt_checkpw(password, users[u].password_hash) THEN ""
         ELSE u

(***************************************************************************)
(* oauth/tokens.py                                                         *)
(***************************************************************************)
\* config.jwt_secret_key, set in the environment.
jwt_secret_key == "k_herald"

\* _get_jwt_secret with the secret configured.
_get_jwt_secret == jwt_secret_key

create_access_token_default_scope(user_id, tenant_id, scopes, client_id) ==
    [kind |-> "jwt",
     sub |-> user_id,
     tenant_id |-> tenant_id,
     scope |-> join(<<"read", "write">>),
     client_id |-> client_id,
     iat |-> now,
     exp |-> now + access_token_expire_minutes,
     token_type |-> "access_token",
     sig |-> _get_jwt_secret]

\* jwt.encode(payload, secret): the payload with the key that signed it.
create_access_token(user_id, tenant_id, scopes, client_id) ==
    [kind |-> "jwt",
     sub |-> user_id,
     tenant_id |-> tenant_id,
     scope |-> join(scopes),
     client_id |-> client_id,
     iat |-> now,
     exp |-> now + access_token_expire_minutes,
     token_type |-> "access_token",
     sig |-> _get_jwt_secret]

\* secrets.token_urlsafe(64): a value never generated before.
new_refresh_token == "rt" \o ToString(Cardinality(DOMAIN oauth_refresh_tokens) + 1)

\* The row create_refresh_token inserts.
refresh_token_row(user_id, scopes, client_id) ==
    [client_id |-> client_id,
     user_id |-> user_id,
     scope |-> join(scopes),
     expires_at |-> now + refresh_token_expire_days * 24 * 60,
     revoked_at |-> NULL]

create_refresh_token(token, user_id, scopes, client_id) ==
    (sha256(token) :> refresh_token_row(user_id, scopes, client_id))
        @@ oauth_refresh_tokens

verify_token_any_type(token) ==
    /\ token.kind = "jwt"
    /\ token.sig = _get_jwt_secret
    /\ token.exp >= now

\* jwt.decode + the token_type check: TRUE when the claims are returned,
\* FALSE when JWTError is raised.
verify_token(token) ==
    /\ token.kind = "jwt"
    /\ token.sig = _get_jwt_secret
    /\ token.exp >= now
    /\ token.token_type = "access_token"

NoTokenData == [found |-> FALSE]

verify_refresh_token_user_scopes(token) ==
    LET h == sha256(token) IN
    IF /\ h \in DOMAIN oauth_refresh_tokens
       /\ has_user(oauth_refresh_tokens[h].user_id)
       /\ oauth_refresh_tokens[h].expires_at > now
       /\ oauth_refresh_tokens[h].revoked_at = NULL
    THEN [found |-> TRUE,
          user_id |-> oauth_refresh_tokens[h].user_id,
          tenant_id |-> users[oauth_refresh_tokens[h].user_id].tenant_id,
          scopes |-> users[oauth_refresh_tokens[h].user_id].scopes,
          client_id |-> oauth_refresh_tokens[h].client_id]
    ELSE NoTokenData

\* The token data of an unrevoked, unexpired refresh token whose user
\* exists (the JOIN), or NoTokenData.
verify_refresh_token(token) ==
    LET h == sha256(token) IN
    IF /\ h \in DOMAIN oauth_refresh_tokens
       /\ has_user(oauth_refresh_tokens[h].user_id)
       /\ oauth_refresh_tokens[h].expires_at > now
       /\ oauth_refresh_tokens[h].revoked_at = NULL
    THEN [found |-> TRUE,
          user_id |-> oauth_refresh_tokens[h].user_id,
          tenant_id |-> users[oauth_refresh_tokens[h].user_id].tenant_id,
          scopes |-> split(oauth_refresh_tokens[h].scope),
          client_id |-> oauth_refresh_tokens[h].client_id]
    ELSE NoTokenData

revoke_refresh_token_noop(token) == oauth_refresh_tokens

revoke_refresh_token_toggle(token) ==
    [h \in DOMAIN oauth_refresh_tokens |->
        IF h = sha256(token)
        THEN [oauth_refresh_tokens[h] EXCEPT
                 !.revoked_at = IF oauth_refresh_tokens[h].revoked_at = NULL
                                THEN now ELSE NULL]
        ELSE oauth_refresh_tokens[h]]

\* UPDATE oauth_refresh_tokens SET revoked_at = NOW() WHERE token_hash = :h
revoke_refresh_token(token) ==
    [h \in DOMAIN oauth_refresh_tokens |->
        IF h = sha256(token)
        THEN [oauth_refresh_tokens[h] EXCEPT !.revoked_at = now]
        ELSE oauth_refresh_tokens[h]]

(***************************************************************************)
(* oauth/server.py                                                         *)
(***************************************************************************)
_error_response(status_code, error, description) ==
    [status |-> status_code, error |-> error, error_description |-> description]

\* No response yet: the invocation is still running.
Pending == [status |-> 0, error |-> "", error_description |-> ""]

\* None of the checks of a grant failed.
Passed == [status |-> 200, error |-> "", error_description |-> ""]

\* The invocation p returns response x to request r.
Return(p, r, x) ==
    /\ req' = [req EXCEPT ![p] = r]
    /\ resp' = [resp EXCEPT ![p] = x]

\* The scope of an authorize POST: body_params.get("scope") or
\* query_params.get("scope", "read write").
authorize_scope(r) ==
    IF r.scope # <<>> THEN r.scope
    ELSE IF r.has_query_scope THEN r.query_scope
    ELSE <<"read", " ", "write">>

granted_scopes_unfiltered(scope, user_scopes) == split(scope)

\* The scopes an authorization code is issued with.
granted_scopes(scope, user_scopes) ==
    LET requested_scopes == split(scope)
        granted == SelectSeq(requested_scopes, LAMBDA s : contains(user_scopes, s))
    IN  IF granted = <<>> THEN <<"read">> ELSE granted

\* secrets.token_urlsafe(32): a value never generated before.
new_code == "code" \o ToString(Cardinality(DOMAIN oauth_authorization_codes) + 1)

\* POST /oauth/authorize: the login form is submitted.
_handle_authorize_post(p, r) ==
    /\ pc[p] = "idle"
    /\ UNCHANGED <<now, ticks, oauth_clients, oauth_refresh_tokens, pc, local,
                   issued, mcp_vars, secret_vars, pkce>>
    /\ IF r.email = "" \/ r.password = ""
       THEN /\ Return(p, r, _error_response(400, "invalid_request",
                                            "Email and password are required"))
            /\ UNCHANGED <<users, oauth_authorization_codes>>
       ELSE LET user == authenticate_user(r.email, r.password) IN
            IF user = ""
            THEN /\ Return(p, r, [status |-> 200, error |-> "Invalid email or password",
                                  error_description |-> "login form"])
                 /\ UNCHANGED <<users, oauth_authorization_codes>>
            ELSE /\ Cardinality(DOMAIN oauth_authorization_codes) < MaxCodes
                 /\ users' = [users EXCEPT ![user].last_login_at = now]
                 /\ oauth_authorization_codes' =
                        (new_code :>
                            [client_id |-> r.client_id,
                             user_id |-> user,
                             redirect_uri |-> r.redirect_uri,
                             scope |-> join(granted_scopes(authorize_scope(r),
                                                           users[user].scopes)),
                             code_challenge |-> r.code_challenge,
                             code_challenge_method |-> r.code_challenge_method,
                             expires_at |-> now + authorization_code_expire_minutes,
                             used_at |-> NULL])
                        @@ oauth_authorization_codes
                 /\ Return(p, r, [status |-> 302, error |-> "", error_description |-> "",
                                  location |-> r.redirect_uri, code |-> new_code])

\* <<client_id, client_secret>>: the Basic header first, then the body.
_extract_client_credentials(r) ==
    IF r.basic # <<>> THEN r.basic ELSE <<r.client_id, r.client_secret>>

client_secret_missing_never(client_id, client_secret) == FALSE

\* The client is confidential and the request does not prove its secret.
client_secret_missing(client_id, client_secret) ==
    /\ has_client(client_id)
    /\ get_client(client_id).client_secret_hash # ""
    /\ (client_secret = "" \/ ~verify_client_secret(client_id, client_secret))

code_is_used_never(auth_code) == FALSE

\* auth_code.get("used_at"): the code was redeemed before.
code_is_used(auth_code) == auth_code.used_at # NULL

client_id_mismatch_never(granted_to, client_id) == FALSE

\* auth_code["client_id"] != client_id, token_data["client_id"] != client_id
client_id_mismatch(granted_to, client_id) == granted_to # client_id

redirect_uri_mismatch_never(auth_code, redirect_uri) == FALSE

\* if redirect_uri and auth_code["redirect_uri"] != redirect_uri
redirect_uri_mismatch(auth_code, redirect_uri) ==
    redirect_uri # "" /\ auth_code.redirect_uri # redirect_uri

\* The checks of the authorization_code grant, in the handler's order: the
\* error response of the first that fails, or Passed.
code_grant_check(r, client_id, client_secret) ==
    IF r.code = "" THEN _error_response(400, "invalid_request", "code is required")
    ELSE IF r.code_verifier = ""
    THEN _error_response(400, "invalid_request", "code_verifier is required (PKCE)")
    ELSE IF r.code \notin DOMAIN oauth_authorization_codes
    THEN _error_response(400, "invalid_grant", "Invalid authorization code")
    ELSE LET auth_code == oauth_authorization_codes[r.code] IN
    IF auth_code.expires_at < now
    THEN _error_response(400, "invalid_grant", "Authorization code has expired")
    ELSE IF code_is_used(auth_code)
    THEN _error_response(400, "invalid_grant", "Authorization code has already been used")
    ELSE IF client_id_mismatch(auth_code.client_id, client_id)
    THEN _error_response(400, "invalid_grant", "Client ID mismatch")
    ELSE IF redirect_uri_mismatch(auth_code, r.redirect_uri)
    THEN _error_response(400, "invalid_grant", "Redirect URI mismatch")
    ELSE IF ~pkce_method_supported(auth_code.code_challenge_method)
    THEN \* ValueError from generate_code_challenge, caught by handler()
         _error_response(400, "invalid_request", "Unsupported code challenge method")
    ELSE IF auth_code.code_challenge = ""
    THEN \* compare_digest(str, None): TypeError, caught by handler()
         _error_response(500, "server_error", "Internal server error")
    ELSE IF verify_code_challenge_outcome(r.code_verifier, auth_code.code_challenge,
                                          auth_code.code_challenge_method) = "TypeError"
    THEN \* compare_digest on non-ASCII text: TypeError, caught by handler()
         _error_response(500, "server_error", "Internal server error")
    ELSE IF ~verify_code_challenge(r.code_verifier, auth_code.code_challenge,
                                   auth_code.code_challenge_method)
    THEN _error_response(400, "invalid_grant", "Invalid code_verifier")
    ELSE IF client_secret_missing(client_id, client_secret)
    THEN _error_response(401, "invalid_client", "Invalid client credentials")
    ELSE Passed

\* An invocation holds no row.
NoRow == [found |-> FALSE]

\* Invocations under way, each of which may still store one refresh token.
in_flight == {q \in Workers : pc[q] # "idle"}
may_store_token ==
    Cardinality(DOMAIN oauth_refresh_tokens) + Cardinality(in_flight) < MaxRefresh

reject_grant_revoking(p, r, error) ==
    /\ Return(p, r, error)
    /\ oauth_refresh_tokens' =
           [h \in DOMAIN oauth_refresh_tokens |->
               IF /\ r.code \in DOMAIN oauth_authorization_codes
                  /\ oauth_refresh_tokens[h].user_id =
                         oauth_authorization_codes[r.code].user_id
               THEN [oauth_refresh_tokens[h] EXCEPT !.revoked_at = now]
               ELSE oauth_refresh_tokens[h]]
    /\ UNCHANGED <<oauth_authorization_codes, pc, local, issued>>

\* return _error_response(...) out of a grant handler: nothing is written.
reject_grant(p, r, error) ==
    /\ Return(p, r, error)
    /\ UNCHANGED <<oauth_authorization_codes, oauth_refresh_tokens, pc, local, issued>>

\* authorization_code grant, up to the first write: the code is read and checked.
code_grant_lookup(p, r) ==
    /\ pc[p] = "idle"
    /\ UNCHANGED <<now, ticks, users, oauth_clients, mcp_vars, secret_vars, pkce>>
    /\ LET cred == _extract_client_credentials(r)
           check == code_grant_check(r, cred[1], cred[2])
       IN  IF check # Passed
           THEN reject_grant(p, r, check)
           ELSE /\ may_store_token
                /\ Return(p, r, Pending)
                /\ pc' = [pc EXCEPT ![p] = "mark_used"]
                /\ local' = [local EXCEPT ![p] = oauth_authorization_codes[r.code]]
                /\ UNCHANGED <<oauth_authorization_codes, oauth_refresh_tokens, issued>>

\* UPDATE oauth_authorization_codes SET used_at = NOW() WHERE code = :code
code_grant_mark_used(p) ==
    /\ pc[p] = "mark_used"
    /\ oauth_authorization_codes' =
           [oauth_authorization_codes EXCEPT ![req[p].code].used_at = now]
    /\ pc' = [pc EXCEPT ![p] = "issue"]
    /\ UNCHANGED <<now, ticks, users, oauth_clients, oauth_refresh_tokens, req,
                   local, resp, issued, mcp_vars, secret_vars, pkce>>

\* The token response of either grant.
token_response(access_token, refresh_token, scope) ==
    [status |-> 200, error |-> "", error_description |-> "",
     access_token |-> access_token, refresh_token |-> refresh_token, scope |-> scope]

\* authorization_code grant, after the code is marked used: the user is read
\* and the tokens are created.
code_grant_issue(p) ==
    /\ pc[p] = "issue"
    /\ pc' = [pc EXCEPT ![p] = "idle"]
    /\ local' = [local EXCEPT ![p] = NoRow]
    /\ UNCHANGED <<now, ticks, users, oauth_clients, oauth_authorization_codes,
                   req, mcp_vars, secret_vars, pkce>>
    /\ IF ~has_user(local[p].user_id)
       THEN /\ resp' = [resp EXCEPT ![p] =
                           _error_response(400, "invalid_grant", "User not found")]
            /\ UNCHANGED <<oauth_refresh_tokens, issued>>
       ELSE LET user == get_user(local[p].user_id)
                client_id == _extract_client_credentials(req[p])[1]
                scopes == split(local[p].scope)
                access_token == create_access_token(local[p].user_id, user.tenant_id,
                                                    scopes, client_id)
                refresh_token == new_refresh_token
            IN  /\ oauth_refresh_tokens' =
                       create_refresh_token(refresh_token, local[p].user_id,
                                            scopes, client_id)
                /\ resp' = [resp EXCEPT ![p] =
                               token_response(access_token, refresh_token, local[p].scope)]
                /\ issued' = issued \cup
                       {[grant |-> "authorization_code", presented |-> req[p].code,
                         access_token |-> access_token, refresh_token |-> refresh_token,
                         scope |-> local[p].scope]}

\* The checks of the refresh_token grant, in the handler's order.
refresh_grant_check(r, client_id, client_secret) ==
    IF r.refresh_token = ""
    THEN _error_response(400, "invalid_request", "refresh_token is required")
    ELSE LET token_data == verify_refresh_token(r.refresh_token) IN
    IF ~token_data.found
    THEN _error_response(400, "invalid_grant", "Invalid or expired refresh token")
    ELSE IF client_id_mismatch(token_data.client_id, client_id)
    THEN _error_response(400, "invalid_grant", "Client ID mismatch")
    ELSE IF client_secret_missing(client_id, client_secret)
    THEN _error_response(401, "invalid_client", "Invalid client credentials")
    ELSE Passed

\* refresh_token grant, up to the first write: the token is verified and checked.
refresh_grant_lookup(p, r) ==
    /\ pc[p] = "idle"
    /\ UNCHANGED <<now, ticks, users, oauth_clients, mcp_vars, secret_vars, pkce>>
    /\ LET cred == _extract_client_credentials(r)
           check == refresh_grant_check(r, cred[1], cred[2])
       IN  IF check # Passed
           THEN reject_grant(p, r, check)
           ELSE /\ may_store_token
                /\ Return(p, r, Pending)
                /\ pc' = [pc EXCEPT ![p] = "revoke"]
                /\ local' = [local EXCEPT ![p] = verify_refresh_token(r.refresh_token)]
                /\ UNCHANGED <<oauth_authorization_codes, oauth_refresh_tokens, issued>>

\* refresh_token grant: revoke_refresh_token(refresh_token)
refresh_grant_revoke(p) ==
    /\ pc[p] = "revoke"
    /\ oauth_refresh_tokens' = revoke_refresh_token(req[p].refresh_token)
    /\ pc' = [pc EXCEPT ![p] = "reissue"]
    /\ UNCHANGED <<now, ticks, users, oauth_clients, oauth_authorization_codes, req,
                   local, resp, issued, mcp_vars, secret_vars, pkce>>

\* refresh_token grant, after the revocation: the new pair is created from
\* the token data read at the start.
refresh_grant_issue(p) ==
    /\ pc[p] = "reissue"
    /\ pc' = [pc EXCEPT ![p] = "idle"]
    /\ local' = [local EXCEPT ![p] = NoRow]
    /\ UNCHANGED <<now, ticks, users, oauth_clients, oauth_authorization_codes,
                   req, mcp_vars, secret_vars, pkce>>
    /\ LET token_data == local[p]
           client_id == _extract_client_credentials(req[p])[1]
           access_token == create_access_token(token_data.user_id, token_data.tenant_id,
                                               token_data.scopes, client_id)
           new_token == new_refresh_token
       IN  /\ oauth_refresh_tokens' =
                  create_refresh_token(new_token, token_data.user_id,
                                       token_data.scopes, client_id)
           /\ resp' = [resp EXCEPT ![p] =
                          token_response(access_token, new_token, join(token_data.scopes))]
           /\ issued' = issued \cup
                  {[grant |-> "refresh_token", presented |-> req[p].refresh_token,
                    access_token |-> access_token, refresh_token |-> new_token,
                    scope |-> join(token_data.scopes)]}

\* POST /oauth/token
_handle_token(p, r) ==
    \/ /\ r.grant_type = "authorization_code"
       /\ code_grant_lookup(p, r)
    \/ /\ r.grant_type = "refresh_token"
       /\ refresh_grant_lookup(p, r)
    \/ /\ r.grant_type \notin {"authorization_code", "refresh_token"}
       /\ pc[p] = "idle"
       /\ Return(p, r, _error_response(400, "unsupported_grant_type",
                                       "Grant type is not supported"))
       /\ UNCHANGED <<now, ticks, users, oauth_clients, oauth_authorization_codes,
                      oauth_refresh_tokens, pc, local, issued, mcp_vars, secret_vars, pkce>>

(***************************************************************************)
(* admin/tenant.py                                                         *)
(***************************************************************************)
\* PUT /users/{id} with "scopes" in the body.
_update_user(user_id, scopes) ==
    /\ has_user(user_id)
    /\ users[user_id].scopes # scopes
    /\ users' = [users EXCEPT ![user_id].scopes = scopes]
    /\ UNCHANGED <<now, ticks, oauth_clients, oauth_authorization_codes,
                   oauth_refresh_tokens, pc, req, local, resp, issued, mcp_vars, secret_vars, pkce>>

(***************************************************************************)
(* Time.                                                                   *)
(***************************************************************************)
\* The clock advances by d minutes.
Tick(d) ==
    /\ ticks < MaxTicks
    /\ now' = now + d
    /\ ticks' = ticks + 1
    /\ UNCHANGED <<oauth_vars, mcp_vars, secret_vars, pkce>>

(***************************************************************************)
(* The initial state: two tenants with one user each, a public and a       *)
(* confidential client, no code, no token, no session.                     *)
(***************************************************************************)
InitUsers ==
    [u \in {"u1", "u2"} |->
        [tenant_id |-> IF u = "u1" THEN "t1" ELSE "t2",
         email |-> IF u = "u1" THEN "a@x" ELSE "b@x",
         password_hash |-> bcrypt_hashpw(IF u = "u1" THEN "pw1" ELSE "pw2"),
         scopes |-> IF u = "u1" THEN <<"read", "write">>
                    ELSE <<"read", "write", "admin">>,
         is_active |-> TRUE,
         last_login_at |-> NULL]]

InitClients ==
    [c \in {"c_pub", "c_conf"} |->
        [client_secret_hash |-> IF c = "c_pub" THEN "" ELSE bcrypt_hashpw("s3cret"),
         redirect_uris |-> {"https://app.example/cb"},
         token_endpoint_auth_method |-> IF c = "c_pub" THEN "none"
                                        ELSE "client_secret_basic",
         is_active |-> TRUE]]

NoRequest == [endpoint |-> "none"]
NoMcpResponse == [status |-> 0]

\* No call of the PKCE functions.
NoPkceCall ==
    [verifier |-> "", method |-> "", challenge |-> "", step |-> "none",
     derived |-> "", round_trip |-> "", tampered |-> ""]

\* No token signed yet, nothing verified yet.
NotSigned == [by |-> "", sig |-> ""]
NotVerified == [by |-> "", token |-> NotSigned, ok |-> TRUE]

NothingRan == [handled |-> "", tool |-> ""]

InitStore ==
    /\ now = 0
    /\ ticks = 0
    /\ users = InitUsers
    /\ oauth_clients = InitClients
    /\ oauth_authorization_codes = <<>>
    /\ oauth_refresh_tokens = <<>>
    /\ pc = [p \in Workers |-> "idle"]
    /\ req = [p \in Workers |-> NoRequest]
    /\ local = [p \in Workers |-> NoRow]
    /\ resp = [p \in Workers |-> Pending]
    /\ issued = {}
    /\ mcp_sessions = <<>>
    /\ mcp_req = NoRequest
    /\ mcp_resp = NoMcpResponse
    /\ mcp_ran = NothingRan
    /\ settings = ""
    /\ _jwt_secret = [p \in Processes |-> ""]
    /\ secret_pc = [p \in Processes |-> "cold"]
    /\ signed = NotSigned
    /\ verified = NotVerified

Init == InitStore /\ pkce = NoPkceCall

(***************************************************************************)
(* Requests.                                                               *)
(***************************************************************************)
AuthorizeRequest(client_id, scope, email, password) ==
    [endpoint |-> "authorize",
     client_id |-> client_id,
     redirect_uri |-> "https://app.example/cb",
     scope |-> scope,
     has_query_scope |-> FALSE,
     query_scope |-> <<>>,
     code_challenge |-> s256("v1"),
     code_challenge_method |-> "S256",
     email |-> email,
     password |-> password]

CodeRequest(code, code_verifier, client_id, client_secret) ==
    [endpoint |-> "token",
     grant_type |-> "authorization_code",
     code |-> code,
     redirect_uri |-> "https://app.example/cb",
     code_verifier |-> code_verifier,
     refresh_token |-> "",
     client_id |-> client_id,
     client_secret |-> client_secret,
     basic |-> <<>>]

RefreshRequest(refresh_token, client_id, client_secret) ==
    [endpoint |-> "token",
     grant_type |-> "refresh_token",
     code |-> "",
     redirect_uri |-> "",
     code_verifier |-> "",
     refresh_token |-> refresh_token,
     client_id |-> client_id,
     client_secret |-> client_secret,
     basic |-> <<>>]

Codes == {"code" \o ToString(i) : i \in 1..MaxCodes}
RefreshTokens == {"rt" \o ToString(i) : i \in 1..MaxRefresh}

\* What concurrent clients send: well-formed requests of the public client,
\* among them several for the same code or the same refresh token.
ConcurrentAuthorize == {AuthorizeRequest("c_pub", <<>>, "a@x", "pw1")}

ConcurrentToken ==
    {CodeRequest(code, "v1", "c_pub", "") : code \in Codes}
    \cup {RefreshRequest(token, "c_pub", "") : token \in RefreshTokens}
    \cup {[RefreshRequest("rt1", "c_pub", "") EXCEPT !.grant_type = "password"]}

\* The clock steps past the lifetime of an authorization code.
ConcurrentTicks == {authorization_code_expire_minutes + 1}

(***************************************************************************)
(* Concurrent invocations: any interleaving of the store statements of     *)
(* their handlers.                                                         *)
(***************************************************************************)
Next ==
    \/ \E p \in Workers, r \in ConcurrentAuthorize : _handle_authorize_post(p, r)
    \/ \E p \in Workers, r \in ConcurrentToken : _handle_token(p, r)
    \/ \E p \in Workers : code_grant_mark_used(p)
    \/ \E p \in Workers : code_grant_issue(p)
    \/ \E p \in Workers : refresh_grant_revoke(p)
    \/ \E p \in Workers : refresh_grant_issue(p)
    \/ \E d \in ConcurrentTicks : Tick(d)

Spec == Init /\ [][Next]_vars

(***************************************************************************)
(* One invocation at a time: requests run one after another, each handler  *)
(* to its end, while the clock may advance.  The token endpoint receives   *)
(* right and wrong parameters.                                             *)
(***************************************************************************)
SeqWorker == "w1"

SeqAuthorize == {AuthorizeRequest("c_pub", <<>>, "a@x", "pw1")}

SeqToken ==
    {CodeRequest(code, verifier, "c_pub", "") :
        code \in Codes, verifier \in {"v1", "v2", ""}}
    \cup {CodeRequest("code1", "v1", "c_conf", "")}
    \cup {[CodeRequest("code1", "v1", "c_pub", "") EXCEPT !.redirect_uri = "https://evil.example/cb"]}
    \cup {RefreshRequest(token, "c_pub", "") : token \in RefreshTokens \cup {""}}
    \cup {RefreshRequest("rt1", "c_conf", "")}
    \cup {[RefreshRequest("rt1", "c_pub", "") EXCEPT !.grant_type = "password"]}

\* The clock steps past the lifetime of an authorization code.
SeqTicks == {authorization_code_expire_minutes + 1}

SeqNext ==
    \/ \E r \in SeqAuthorize : _handle_authorize_post(SeqWorker, r)
    \/ \E r \in SeqToken : _handle_token(SeqWorker, r)
    \/ code_grant_mark_used(SeqWorker)
    \/ code_grant_issue(SeqWorker)
    \/ refresh_grant_revoke(SeqWorker)
    \/ refresh_grant_issue(SeqWorker)
    \/ \E d \in SeqTicks : Tick(d)

SeqSpec == Init /\ [][SeqNext]_vars

(***************************************************************************)
(* What has been delivered.                                                *)
(***************************************************************************)
\* The token responses that redeemed the authorization code c.
CodeIssuances(c) ==
    {i \in issued : i.grant = "authorization_code" /\ i.presented = c}

\* The token responses that rotated the refresh token t.
Rotations(t) ==
    {i \in issued : i.grant = "refresh_token" /\ i.presented = t}

\* The refresh token t is accepted by the refresh grant.
Usable(t) == verify_refresh_token(t).found

(***************************************************************************)
(* C1: for every authorization code, however the exchanges that present it *)
(* interleave, at most one of them returns tokens: one code never produces *)
(* two token issuances.                                                    *)
(***************************************************************************)
C1_OneIssuancePerCode ==
    \A c \in Codes : Cardinality(CodeIssuances(c)) <= 1

(***************************************************************************)
(* C2: for every refresh token, however the exchanges that present it      *)
(* interleave, at most one of them returns a new pair: one refresh token   *)
(* never has two live successors.                                          *)
(***************************************************************************)
C2_OneLiveSuccessorPerToken ==
    \A t \in RefreshTokens :
        Cardinality({i \in Rotations(t) : Usable(i.refresh_token)}) <= 1

(***************************************************************************)
(* The last request of the sequential server and its answer.               *)
(***************************************************************************)
\* The server has answered an exchange of authorization code c with an error.
CodeExchangeFailed(c) ==
    /\ pc[SeqWorker] = "idle"
    /\ req[SeqWorker].endpoint = "token"
    /\ req[SeqWorker].grant_type = "authorization_code"
    /\ req[SeqWorker].code = c
    /\ resp[SeqWorker].status # 200

\* The server has answered an exchange of refresh token t with an error.
RefreshExchangeFailed(t) ==
    /\ pc[SeqWorker] = "idle"
    /\ req[SeqWorker].endpoint = "token"
    /\ req[SeqWorker].grant_type = "refresh_token"
    /\ req[SeqWorker].refresh_token = t
    /\ resp[SeqWorker].status # 200

\* Every stored refresh token was delivered in a token response.
NoTokenStoredWithoutResponse ==
    pc[SeqWorker] = "idle" =>
        Cardinality(DOMAIN oauth_refresh_tokens) = Cardinality(issued)

(***************************************************************************)
(* C3, as claimed: with requests one after another, once an exchange of    *)
(* code c has succeeded, every later exchange that presents c fails with   *)
(* invalid_grant, whatever its other parameters, and stores no refresh     *)
(* token.                                                                  *)
(***************************************************************************)
C3_RetryFailsInvalidGrant ==
    /\ \A c \in Codes : Cardinality(CodeIssuances(c)) <= 1
    /\ NoTokenStoredWithoutResponse
    /\ \A c \in Codes :
           (CodeIssuances(c) # {} /\ CodeExchangeFailed(c)) =>
               resp[SeqWorker].error = "invalid_grant"

(***************************************************************************)
(* C3, amended: with requests one after another, once an exchange of code  *)
(* c has succeeded, every later exchange that presents c fails and stores  *)
(* no refresh token; it fails with invalid_grant when it carries a         *)
(* code_verifier and with invalid_request when it carries none.            *)
(***************************************************************************)
C3_RetryFails ==
    /\ \A c \in Codes : Cardinality(CodeIssuances(c)) <= 1
    /\ NoTokenStoredWithoutResponse
    /\ \A c \in Codes :
           (CodeIssuances(c) # {} /\ CodeExchangeFailed(c)) =>
               resp[SeqWorker].error =
                   IF req[SeqWorker].code_verifier = "" THEN "invalid_request"
                   ELSE "invalid_grant"

\* A retry with the right parameters of a redeemed code was answered invalid_grant.
C3_Witness ==
    \E c \in Codes :
        /\ CodeIssuances(c) # {}
        /\ CodeExchangeFailed(c)
        /\ req[SeqWorker] = CodeRequest(c, "v1", "c_pub", "")
        /\ resp[SeqWorker].error = "invalid_grant"
        /\ now <= oauth_authorization_codes[c].expires_at

(***************************************************************************)
(* C4: with requests one after another, once a refresh exchange of token t *)
(* has succeeded, t is revoked and every later exchange that presents t    *)
(* fails with invalid_grant; the token it returned is in turn accepted at  *)
(* most once, and of the tokens of one chain (the token issued for a code  *)
(* and its successive rotations) at most one is usable at any time.        *)
(***************************************************************************)
\* The response that delivered refresh token t.
Delivery(t) == CHOOSE i \in issued : i.refresh_token = t

\* The authorization code at the start of the chain of refresh token t.
RECURSIVE ChainCode(_)
ChainCode(t) ==
    IF Delivery(t).grant = "authorization_code" THEN Delivery(t).presented
    ELSE ChainCode(Delivery(t).presented)

\* The refresh tokens delivered along the chain that starts at code c.
Chain(c) == {i.refresh_token : i \in {j \in issued : ChainCode(j.refresh_token) = c}}

C4_RotationIsSingleUse ==
    /\ \A t \in RefreshTokens :
           /\ Cardinality(Rotations(t)) <= 1
           /\ Rotations(t) # {} =>
                  /\ oauth_refresh_tokens[sha256(t)].revoked_at # NULL
                  /\ ~Usable(t)
                  /\ RefreshExchangeFailed(t) => resp[SeqWorker].error = "invalid_grant"
    /\ \A c \in Codes : Cardinality({t \in Chain(c) : Usable(t)}) <= 1

\* A token was rotated twice along its chain, and the reuse of the first
\* token of the chain was answered invalid_grant while the last is usable.
C4_Witness ==
    \E t \in RefreshTokens, i \in issued :
        /\ Rotations(t) # {}
        /\ Rotations(i.refresh_token) # {}
        /\ i \in Rotations(t)
        /\ RefreshExchangeFailed(t)
        /\ resp[SeqWorker].error = "invalid_grant"
        /\ \E u \in Chain(ChainCode(t)) : Usable(u)

(***************************************************************************)
(* C5: a redemption of an already used authorization code fails and        *)
(* changes nothing about what the first redemption issued: the access      *)
(* token of the first redemption verifies as before, and its refresh token *)
(* is accepted by the refresh grant as before.                             *)
(***************************************************************************)
C5_FailedRedemptionKeepsTokens ==
    [][\A r \in SeqToken :
          (/\ r.grant_type = "authorization_code"
           /\ r.code \in DOMAIN oauth_authorization_codes
           /\ oauth_authorization_codes[r.code].used_at # NULL
           /\ _handle_token(SeqWorker, r)
           /\ resp'[SeqWorker].status # 200)
          => \A i \in CodeIssuances(r.code) :
                 /\ verify_token(i.access_token)' = verify_token(i.access_token)
                 /\ verify_refresh_token(i.refresh_token)' =
                        verify_refresh_token(i.refresh_token)
                 /\ oauth_refresh_tokens'[sha256(i.refresh_token)] =
                        oauth_refresh_tokens[sha256(i.refresh_token)]
      ]_vars

\* A second redemption was refused while the refresh token of the first is
\* still accepted and its access token still verifies.
C5_Witness ==
    \E c \in Codes, i \in issued :
        /\ i \in CodeIssuances(c)
        /\ CodeExchangeFailed(c)
        /\ resp[SeqWorker].error_description = "Authorization code has already been used"
        /\ Usable(i.refresh_token)
        /\ verify_token(i.access_token)

(***************************************************************************)
(* Scopes: one invocation at a time; the authorize endpoint receives       *)
(* several scope strings, and a tenant admin changes the scopes of user u1 *)
(* between the requests.                                                   *)
(***************************************************************************)
ScopeStrings ==
    {<<>>, <<"read">>, <<"admin">>, <<"write", " ", "admin">>,
     <<"read", " ", " ", "write">>}

ScopeAuthorize ==
    {AuthorizeRequest("c_pub", scope, "a@x", "pw1") : scope \in ScopeStrings}
    \cup {[AuthorizeRequest("c_pub", <<>>, "a@x", "pw1")
              EXCEPT !.has_query_scope = TRUE, !.query_scope = <<"write">>]}
    \cup {AuthorizeRequest("c_pub", <<"read">>, "a@x", "wrong"),
          AuthorizeRequest("c_pub", <<"read">>, "a@x", "")}

ScopeToken ==
    {CodeRequest(code, "v1", "c_pub", "") : code \in Codes}
    \cup {RefreshRequest(token, "c_pub", "") : token \in RefreshTokens}
    \cup {[RefreshRequest("rt1", "c_pub", "") EXCEPT !.grant_type = "password"]}

\* The scopes an admin gives to user u1.
ScopeUpdates == {<<"write">>, <<"admin">>, <<"read", "write">>}

ScopeNext ==
    \/ \E r \in ScopeAuthorize : _handle_authorize_post(SeqWorker, r)
    \/ \E r \in ScopeToken : _handle_token(SeqWorker, r)
    \/ code_grant_mark_used(SeqWorker)
    \/ code_grant_issue(SeqWorker)
    \/ refresh_grant_revoke(SeqWorker)
    \/ refresh_grant_issue(SeqWorker)
    \/ \E scopes \in ScopeUpdates : _update_user("u1", scopes)

ScopeSpec == Init /\ [][ScopeNext]_vars

\* The set of the scopes a scope string names.
ScopeSet(scope) == {split(scope)[k] : k \in DOMAIN split(scope)}

\* The scopes user u holds.
Held(u) == {users[u].scopes[k] : k \in DOMAIN users[u].scopes}

(***************************************************************************)
(* C6: along a chain that starts at the exchange of a code and continues   *)
(* through refresh exchanges, every refresh exchange returns the scope     *)
(* that was granted to the code (hence a subset of it), in the response,   *)
(* in the access token and in the stored refresh token, also when the      *)
(* scopes of the user have changed in between.                             *)
(***************************************************************************)
C6_RefreshKeepsScope ==
    \A i \in issued :
        i.grant = "refresh_token" =>
            LET granted == oauth_authorization_codes[ChainCode(i.refresh_token)].scope IN
            /\ i.scope = granted
            /\ ScopeSet(i.scope) \subseteq ScopeSet(granted)
            /\ i.access_token.scope = granted
            /\ oauth_refresh_tokens[sha256(i.refresh_token)].scope = granted

\* A refresh exchange returned a scope the user no longer holds, while the
\* user holds a scope the code was not granted.
C6_Witness ==
    \E i \in issued :
        /\ i.grant = "refresh_token"
        /\ pc[SeqWorker] = "idle"
        /\ resp[SeqWorker].status = 200
        /\ req[SeqWorker].grant_type = "refresh_token"
        /\ resp[SeqWorker].refresh_token = i.refresh_token
        /\ LET u == oauth_refresh_tokens[sha256(i.refresh_token)].user_id IN
           /\ ~(ScopeSet(i.scope) \subseteq Held(u))
           /\ ~(Held(u) \subseteq ScopeSet(i.scope))

\* The authorization codes the step stores.
NewCodes == DOMAIN oauth_authorization_codes' \ DOMAIN oauth_authorization_codes

(***************************************************************************)
(* C7, as claimed: every scope stored in the authorization code that a     *)
(* successful authorize POST issues is a scope the authenticated user      *)
(* holds.                                                                  *)
(***************************************************************************)
C7_GrantsOnlyHeldScopes ==
    [][\A c \in NewCodes :
          ScopeSet(oauth_authorization_codes'[c].scope)
              \subseteq Held(oauth_authorization_codes'[c].user_id)
      ]_vars

(***************************************************************************)
(* C7, amended: every scope stored in the authorization code that a        *)
(* successful authorize POST issues is a scope the authenticated user      *)
(* holds and the request asked for, except that the code stores exactly    *)
(* read when the user holds none of the requested scopes.                  *)
(***************************************************************************)
C7_GrantsHeldScopesOrRead ==
    [][\A c \in NewCodes :
          LET stored == oauth_authorization_codes'[c].scope
              requested == ScopeSet(authorize_scope(req'[SeqWorker]))
              held == Held(oauth_authorization_codes'[c].user_id)
          IN  /\ resp'[SeqWorker].status = 302
              /\ resp'[SeqWorker].code = c
              /\ IF requested \cap held = {}
                 THEN stored = <<"read">>
                 ELSE ScopeSet(stored) = requested \cap held
      ]_vars

\* A code was issued for a request none of whose scopes the user held, and
\* another for a request of which the user held one scope only.
C7_Witness ==
    /\ \E c \in DOMAIN oauth_authorization_codes :
           /\ pc[SeqWorker] = "idle"
           /\ req[SeqWorker].endpoint = "authorize"
           /\ resp[SeqWorker].status = 302
           /\ resp[SeqWorker].code = c
           /\ authorize_scope(req[SeqWorker]) = <<"admin">>
           /\ oauth_authorization_codes[c].scope = <<"read">>
           /\ users[oauth_authorization_codes[c].user_id].last_login_at = now
           /\ Held(oauth_authorization_codes[c].user_id) = {"write"}
    /\ \E c \in DOMAIN oauth_authorization_codes :
           oauth_authorization_codes[c].scope = <<"write">>

(***************************************************************************)
(* mcp/protocol.py                                                         *)
(***************************************************************************)
PARSE_ERROR == -32700
INVALID_REQUEST == -32600
METHOD_NOT_FOUND == -32601
INVALID_PARAMS == -32602
INTERNAL_ERROR == -32603
MCP_NOT_INITIALIZED == -32000
MCP_ALREADY_INITIALIZED == -32001
MCP_INVALID_SESSION == -32002

McpError(code, message) == [code |-> code, message |-> message]

\* No McpError was raised.
NoError == McpError(0, "")

\* A JSON id: <<>> for None (absent or null), <<v>> for the value v.
None == <<>>

\* JsonRpcRequest.from_dict: the request, or the McpError it raises.
from_dict(data) ==
    IF data.jsonrpc # "2.0"
    THEN [raised |-> TRUE, error |-> McpError(INVALID_REQUEST, "Invalid JSON-RPC version")]
    ELSE IF data.method = ""
    THEN [raised |-> TRUE, error |-> McpError(INVALID_REQUEST, "Missing method")]
    ELSE [raised |-> FALSE, error |-> NoError, method |-> data.method,
          params |-> data.params, id |-> data.id]

\* JsonRpcRequest.is_notification
is_notification(request) == request.id = None

(***************************************************************************)
(* tools/registry.py                                                       *)
(***************************************************************************)
\* TOOLS_REGISTRY: the required_scope of each tool.
TOOLS_REGISTRY ==
    [name \in {"list_buckets", "publish_file", "get_presigned_url", "list_files",
               "delete_file"} |->
        CASE name = "list_buckets" -> "read"
          [] name = "publish_file" -> "write"
          [] name = "get_presigned_url" -> "write"
          [] name = "list_files" -> "read"
          [] name = "delete_file" -> "delete"]

(***************************************************************************)
(* oauth/tokens.py: the Authorization header                               *)
(***************************************************************************)
\* The text of an Authorization header: a sequence of words, blanks and
\* encoded tokens.
Word(w) == [text |-> w]
Blank == Word(" ")
Encoded(token) == [text |-> "token", token |-> token]

\* authorization_header.split()
split_header(authorization_header) ==
    SelectSeq(authorization_header, LAMBDA part : part # Blank)

\* str.lower() on the words a header starts with.
lower(w) ==
    CASE w \in {"Bearer", "BEARER", "bearer"} -> "bearer"
      [] w \in {"Basic", "basic"} -> "basic"
      [] OTHER -> w

\* jwt.decode of what stands in the place of the token.
decode(part) == IF part.text = "token" THEN part.token ELSE [kind |-> "text"]

get_token_claims_any_type(authorization_header) ==
    IF authorization_header = <<>> THEN [raised |-> TRUE]
    ELSE LET parts == split_header(authorization_header) IN
         IF Len(parts) # 2 THEN [raised |-> TRUE]
         ELSE IF lower(parts[1].text) # "bearer" THEN [raised |-> TRUE]
         ELSE IF ~(/\ decode(parts[2]).kind = "jwt"
                   /\ decode(parts[2]).sig = _get_jwt_secret
                   /\ decode(parts[2]).exp >= now)
         THEN [raised |-> TRUE]
         ELSE [raised |-> FALSE, claims |-> decode(parts[2])]

\* The claims of the bearer token of the header, or ValueError / JWTError.
get_token_claims(authorization_header) ==
    IF authorization_header = <<>> THEN [raised |-> TRUE]
    ELSE LET parts == split_header(authorization_header) IN
         IF Len(parts) # 2 THEN [raised |-> TRUE]
         ELSE IF lower(parts[1].text) # "bearer" THEN [raised |-> TRUE]
         ELSE IF ~verify_token(decode(parts[2])) THEN [raised |-> TRUE]
         ELSE [raised |-> FALSE, claims |-> decode(parts[2])]

(***************************************************************************)
(* utils/config.py                                                         *)
(***************************************************************************)
\* config.get_oauth_issuer(event), with OAUTH_ISSUER not set.
get_oauth_issuer(event) ==
    IF event.domainName # ""
    THEN IF event.stage # "" /\ event.stage # "$default"
         THEN "https://" \o event.domainName \o "/" \o event.stage
         ELSE "https://" \o event.domainName
    ELSE ""

(***************************************************************************)
(* mcp/server.py                                                           *)
(***************************************************************************)
\* What _handle_method and the handlers under it come to: the value they
\* return or the McpError they raise, the table mcp_sessions they leave, and
\* which method handler and which tool handler ran.
Returned(sessions, new_session_id, handled, tool) ==
    [raised |-> FALSE, error |-> NoError, sessions |-> sessions,
     new_session_id |-> new_session_id, handled |-> handled, tool |-> tool]

Raised(error, sessions, handled, tool) ==
    [raised |-> TRUE, error |-> error, sessions |-> sessions,
     new_session_id |-> "", handled |-> handled, tool |-> tool]

\* secrets.token_urlsafe(32): a value never generated before.
new_session_id == "s" \o ToString(Cardinality(DOMAIN mcp_sessions) + 1)

_handle_initialize_dedup(params, token_claims) ==
    IF ~params.is_object
    THEN Raised(McpError(INTERNAL_ERROR, "AttributeError"), mcp_sessions, "initialize", "")
    ELSE IF \E id \in DOMAIN mcp_sessions : mcp_sessions[id].user_id = token_claims.sub
    THEN Returned(mcp_sessions,
                  CHOOSE id \in DOMAIN mcp_sessions :
                      mcp_sessions[id].user_id = token_claims.sub,
                  "initialize", "")
    ELSE Returned((new_session_id :>
                      [user_id |-> token_claims.sub,
                       tenant_id |-> token_claims.tenant_id,
                       expires_at |-> now + SESSION_EXPIRY_HOURS * 60,
                       last_activity_at |-> NULL])
                  @@ mcp_sessions,
                  new_session_id, "initialize", "")

\* initialize: a new session is stored for the subject of the token.  The
\* INSERT leaves last_activity_at to the column: NULL until the first use.
_handle_initialize(params, token_claims) ==
    IF ~params.is_object
    THEN \* params.get: AttributeError, turned into INTERNAL_ERROR by _handle_post
         Raised(McpError(INTERNAL_ERROR, "AttributeError"), mcp_sessions, "initialize", "")
    ELSE Returned((new_session_id :>
                      [user_id |-> token_claims.sub,
                       tenant_id |-> token_claims.tenant_id,
                       expires_at |-> now + SESSION_EXPIRY_HOURS * 60,
                       last_activity_at |-> NULL])
                  @@ mcp_sessions,
                  new_session_id, "initialize", "")

_validate_session_any_user(session_id, token_claims) ==
    IF session_id = ""
    THEN Raised(McpError(MCP_NOT_INITIALIZED, "Session not initialized. Call initialize first."),
                mcp_sessions, "", "")
    ELSE IF ~(session_id \in DOMAIN mcp_sessions /\ mcp_sessions[session_id].expires_at > now)
    THEN Raised(McpError(MCP_INVALID_SESSION, "Invalid or expired session"),
                mcp_sessions, "", "")
    ELSE Returned([mcp_sessions EXCEPT ![session_id].last_activity_at = now], "", "", "")

_validate_session_lookup_first(session_id, token_claims) ==
    IF ~(session_id \in DOMAIN mcp_sessions /\ mcp_sessions[session_id].expires_at > now)
    THEN Raised(McpError(MCP_INVALID_SESSION, "Invalid or expired session"),
                mcp_sessions, "", "")
    ELSE IF mcp_sessions[session_id].user_id # token_claims.sub
    THEN Raised(McpError(MCP_INVALID_SESSION, "Session does not belong to this user"),
                mcp_sessions, "", "")
    ELSE Returned([mcp_sessions EXCEPT ![session_id].last_activity_at = now], "", "", "")

_validate_session_sliding(session_id, token_claims) ==
    IF session_id = ""
    THEN Raised(McpError(MCP_NOT_INITIALIZED, "Session not initialized. Call initialize first."),
                mcp_sessions, "", "")
    ELSE IF ~(/\ session_id \in DOMAIN mcp_sessions
              /\ \/ mcp_sessions[session_id].expires_at > now
                 \/ /\ mcp_sessions[session_id].last_activity_at # NULL
                    /\ mcp_sessions[session_id].last_activity_at
                           + SESSION_EXPIRY_HOURS * 60 > now)
    THEN Raised(McpError(MCP_INVALID_SESSION, "Invalid or expired session"),
                mcp_sessions, "", "")
    ELSE IF mcp_sessions[session_id].user_id # token_claims.sub
    THEN Raised(McpError(MCP_INVALID_SESSION, "Session does not belong to this user"),
                mcp_sessions, "", "")
    ELSE Returned([mcp_sessions EXCEPT ![session_id].last_activity_at = now], "", "", "")

_validate_session_extending(session_id, token_claims) ==
    IF session_id = ""
    THEN Raised(McpError(MCP_NOT_INITIALIZED, "Session not initialized. Call initialize first."),
                mcp_sessions, "", "")
    ELSE IF ~(session_id \in DOMAIN mcp_sessions /\ mcp_sessions[session_id].expires_at > now)
    THEN Raised(McpError(MCP_INVALID_SESSION, "Invalid or expired session"),
                mcp_sessions, "", "")
    ELSE IF mcp_sessions[session_id].user_id # token_claims.sub
    THEN Raised(McpError(MCP_INVALID_SESSION, "Session does not belong to this user"),
                mcp_sessions, "", "")
    ELSE Returned([mcp_sessions EXCEPT
                       ![session_id].last_activity_at = now,
                       ![session_id].expires_at = now + SESSION_EXPIRY_HOURS * 60],
                  "", "", "")

\* The session is read, checked against the token and marked as used.
_validate_session(session_id, token_claims) ==
    IF session_id = ""
    THEN Raised(McpError(MCP_NOT_INITIALIZED, "Session not initialized. Call initialize first."),
                mcp_sessions, "", "")
    ELSE IF ~(session_id \in DOMAIN mcp_sessions /\ mcp_sessions[session_id].expires_at > now)
    THEN Raised(McpError(MCP_INVALID_SESSION, "Invalid or expired session"),
                mcp_sessions, "", "")
    ELSE IF mcp_sessions[session_id].user_id # token_claims.sub
    THEN Raised(McpError(MCP_INVALID_SESSION, "Session does not belong to this user"),
                mcp_sessions, "", "")
    ELSE Returned([mcp_sessions EXCEPT ![session_id].last_activity_at = now], "", "", "")

_handle_tools_call_any_scope(params, sessions, token_claims, tool_outcome) ==
    IF ~params.is_object
    THEN Raised(McpError(INTERNAL_ERROR, "AttributeError"), sessions, "tools/call", "")
    ELSE IF params.name = ""
    THEN Raised(McpError(INVALID_REQUEST, "Missing tool name"), sessions, "tools/call", "")
    ELSE IF params.name \notin DOMAIN TOOLS_REGISTRY
    THEN Raised(McpError(METHOD_NOT_FOUND, "Tool not found"), sessions, "tools/call", "")
    ELSE IF tool_outcome = "raise"
    THEN Raised(McpError(INTERNAL_ERROR, "Tool execution failed"),
                sessions, "tools/call", params.name)
    ELSE Returned(sessions, "", "tools/call", params.name)

\* tools/call on the validated session; tool_outcome is what the tool
\* handler does when it runs: it returns ("ok") or raises ("raise").
_handle_tools_call(params, sessions, token_claims, tool_outcome) ==
    IF ~params.is_object
    THEN Raised(McpError(INTERNAL_ERROR, "AttributeError"), sessions, "tools/call", "")
    ELSE IF params.name = ""
    THEN Raised(McpError(INVALID_REQUEST, "Missing tool name"), sessions, "tools/call", "")
    ELSE IF params.name \notin DOMAIN TOOLS_REGISTRY
    THEN Raised(McpError(METHOD_NOT_FOUND, "Tool not found"), sessions, "tools/call", "")
    ELSE LET required_scope == TOOLS_REGISTRY[params.name]
             user_scopes == split(token_claims.scope)
         IN  IF ~contains(user_scopes, required_scope) /\ ~contains(user_scopes, "admin")
             THEN Raised(McpError(INVALID_REQUEST,
                                  "Insufficient scope. Required: " \o required_scope),
                         sessions, "tools/call", "")
             ELSE IF tool_outcome = "raise"
             THEN Raised(McpError(INTERNAL_ERROR, "Tool execution failed"),
                         sessions, "tools/call", params.name)
             ELSE Returned(sessions, "", "tools/call", params.name)

_handle_method_unknown_as_ping(request, session_id, token_claims, tool_outcome) ==
    IF request.method = "initialize"
    THEN _handle_initialize(request.params, token_claims)
    ELSE IF request.method = "notifications/initialized"
    THEN LET session == _validate_session(session_id, token_claims) IN
         IF session.raised THEN session
         ELSE Returned(session.sessions, "", "notifications/initialized", "")
    ELSE IF request.method = "notifications/cancelled"
    THEN Returned(mcp_sessions, "", "notifications/cancelled", "")
    ELSE LET session == _validate_session(session_id, token_claims) IN
         IF session.raised THEN session
         ELSE IF request.method = "tools/list"
         THEN Returned(session.sessions, "", "tools/list", "")
         ELSE IF request.method = "tools/call"
         THEN _handle_tools_call(request.params, session.sessions, token_claims,
                                 tool_outcome)
         ELSE Returned(session.sessions, "", "ping", "")

\* The JSON-RPC method is routed to its handler.
_handle_method(request, session_id, token_claims, tool_outcome) ==
    IF request.method = "initialize"
    THEN _handle_initialize(request.params, token_claims)
    ELSE IF request.method = "notifications/initialized"
    THEN LET session == _validate_session(session_id, token_claims) IN
         IF session.raised THEN session
         ELSE Returned(session.sessions, "", "notifications/initialized", "")
    ELSE IF request.method = "notifications/cancelled"
    THEN Returned(mcp_sessions, "", "notifications/cancelled", "")
    ELSE LET session == _validate_session(session_id, token_claims) IN
         IF session.raised THEN session
         ELSE IF request.method = "tools/list"
         THEN Returned(session.sessions, "", "tools/list", "")
         ELSE IF request.method = "tools/call"
         THEN _handle_tools_call(request.params, session.sessions, token_claims,
                                 tool_outcome)
         ELSE IF request.method = "ping"
         THEN Returned(session.sessions, "", "ping", "")
         ELSE Raised(McpError(METHOD_NOT_FOUND, "Method not found"),
                     session.sessions, "", "")

\* An HTTP response of the MCP endpoint.
McpResponse(status, www_authenticate, session_header, body) ==
    [status |-> status, www_authenticate |-> www_authenticate,
     session_header |-> session_header, body |-> body]

_jsonrpc_error(request_id, error) ==
    McpResponse(200, "", "",
                [kind |-> "error", id |-> request_id, code |-> error.code,
                 message |-> error.message])

_auth_error_response(event) ==
    McpResponse(401,
                "Bearer resource_metadata=" \o get_oauth_issuer(event)
                    \o "/.well-known/oauth-protected-resource",
                "",
                [kind |-> "http_error", id |-> None, code |-> 0,
                 message |-> "Invalid token"])

\* json.loads(body) if body else {}
EmptyObject ==
    [type |-> "object", jsonrpc |-> "", method |-> "",
     params |-> [is_object |-> TRUE, name |-> ""], id |-> None]
json_loads(body) == IF body.text = "" THEN EmptyObject ELSE body.value

\* A response that is not a JSON-RPC error.
NoBody(kind) == [kind |-> kind, id |-> None, code |-> 0, message |-> ""]

\* POST /mcp
_handle_post(r, tool_outcome) ==
    /\ mcp_req' = r
    /\ UNCHANGED <<now, ticks, oauth_vars, secret_vars, pkce>>
    /\ IF r.authorization = <<>>
       THEN /\ mcp_resp' = _auth_error_response(r)
            /\ mcp_ran' = NothingRan
            /\ UNCHANGED mcp_sessions
       ELSE IF get_token_claims(r.authorization).raised
       THEN /\ mcp_resp' = _auth_error_response(r)
            /\ mcp_ran' = NothingRan
            /\ UNCHANGED mcp_sessions
       ELSE IF r.body.text = "invalid"
       THEN /\ mcp_resp' = _jsonrpc_error(None, McpError(PARSE_ERROR, "Invalid JSON"))
            /\ mcp_ran' = NothingRan
            /\ UNCHANGED mcp_sessions
       ELSE IF json_loads(r.body).type # "object"
       THEN \* request_data.get: AttributeError, which nothing catches; the
            \* invocation fails
            /\ mcp_resp' = McpResponse(500, "", "", NoBody("lambda_error"))
            /\ mcp_ran' = NothingRan
            /\ UNCHANGED mcp_sessions
       ELSE LET token_claims == get_token_claims(r.authorization).claims
                request_data == json_loads(r.body)
                request == from_dict(request_data)
            IN  IF request.raised
                THEN /\ mcp_resp' = _jsonrpc_error(request_data.id, request.error)
                     /\ mcp_ran' = NothingRan
                     /\ UNCHANGED mcp_sessions
                ELSE LET out == _handle_method(request, r.session_id, token_claims,
                                               tool_outcome)
                     IN  /\ mcp_sessions' = out.sessions
                         /\ mcp_ran' = [handled |-> out.handled, tool |-> out.tool]
                         /\ mcp_resp' =
                                IF out.raised THEN _jsonrpc_error(request.id, out.error)
                                ELSE IF is_notification(request)
                                THEN McpResponse(202, "", out.new_session_id,
                                                 NoBody("empty"))
                                ELSE McpResponse(200, "", out.new_session_id,
                                                 [NoBody("result") EXCEPT !.id = request.id])

(***************************************************************************)
(* The MCP endpoint: requests one at a time, with every kind of            *)
(* Authorization header, session id and body, while the clock may advance  *)
(* by the lifetime of a session.                                           *)
(***************************************************************************)
\* Access tokens the authorization server has signed for users u1 and u2.
TokenA == create_access_token("u1", "t1", <<"read", "write">>, "c_pub")
TokenB == create_access_token("u2", "t2", <<"read", "write", "admin">>, "c_pub")

\* Tokens that must not be trusted: expired a minute ago, signed with another
\* key, signed but not an access token, and not a JWT at all.
ExpiredToken ==
    [TokenA EXCEPT !.iat = now - access_token_expire_minutes - 1, !.exp = now - 1]
WrongKeyToken == [TokenB EXCEPT !.sig = "k_other"]
WrongTypeToken == [TokenA EXCEPT !.token_type = "refresh_token"]
OpaqueToken == [kind |-> "opaque", value |-> "rt1"]

\* "<scheme> <token>"
Header(scheme, token) == <<Word(scheme), Blank, Encoded(token)>>

BadHeaders ==
    {<<>>, <<Word("Bearer")>>, <<Blank>>, Header("Basic", TokenA),
     Header("Bearer", TokenA) \o <<Blank, Word("x")>>,
     <<Word("Bearer"), Blank, Word("x")>>}
    \cup {Header("Bearer", token) :
            token \in {ExpiredToken, WrongKeyToken, WrongTypeToken, OpaqueToken}}

SessionIds == {"s" \o ToString(i) : i \in 1..MaxSessions}

\* A JSON-RPC 2.0 request object as the text of a body.
Call(method, id, name) ==
    [text |-> "json",
     value |-> [type |-> "object", jsonrpc |-> "2.0", method |-> method,
                params |-> [is_object |-> TRUE, name |-> name], id |-> id]]

MethodBodies ==
    {Call("initialize", <<1>>, ""),
     Call("notifications/initialized", None, ""),
     Call("notifications/cancelled", None, ""),
     Call("tools/list", <<1>>, ""),
     Call("ping", <<1>>, ""),
     Call("resources/list", <<1>>, ""),
     Call("tools/call", <<1>>, "list_buckets"),
     Call("tools/call", <<1>>, "delete_file")}

MalformedBodies ==
    {[Call("", None, "") EXCEPT !.text = "invalid"],
     [Call("", None, "") EXCEPT !.text = ""],
     [Call("tools/list", <<1>>, "") EXCEPT !.value.jsonrpc = "1.0"],
     [Call("tools/list", <<1>>, "") EXCEPT !.value.type = "array"],
     [Call("initialize", <<1>>, "") EXCEPT !.value.params.is_object = FALSE],
     [Call("tools/call", <<1>>, "") EXCEPT !.value.params.is_object = FALSE],
     Call("tools/call", <<1>>, ""),
     Call("tools/call", <<1>>, "no_such_tool"),
     Call("tools/list", None, "")}

McpRequest(stage, authorization, session_id, body) ==
    [endpoint |-> "mcp", domainName |-> "herald.example", stage |-> stage,
     authorization |-> authorization, session_id |-> session_id, body |-> body]

\* Requests that do not authenticate; well-formed requests of user u1 with
\* no session id and with each session id, and of user u2 for the methods
\* that touch a session; malformed requests.
McpRequests ==
    {McpRequest("prod", h, "", Call("initialize", <<1>>, "")) : h \in BadHeaders}
    \cup {McpRequest("prod", h, "s1", Call("tools/call", <<1>>, "list_buckets")) :
            h \in {<<>>, Header("Bearer", ExpiredToken), Header("Bearer", WrongKeyToken)}}
    \cup {McpRequest("$default", <<>>, "", Call("initialize", <<1>>, ""))}
    \cup {McpRequest("prod", Header("Bearer", TokenA), id, body) :
            id \in SessionIds \cup {""}, body \in MethodBodies}
    \cup {McpRequest("prod", <<Word("bearer"), Blank, Blank, Encoded(TokenB)>>, id, body) :
            id \in SessionIds \cup {""},
            body \in {Call("initialize", <<1>>, ""),
                      Call("notifications/initialized", None, ""),
                      Call("tools/list", <<1>>, ""),
                      Call("tools/call", <<1>>, "delete_file")}}
    \cup {McpRequest("prod", Header("Bearer", TokenA), "s9", Call("tools/list", <<1>>, ""))}
    \cup {McpRequest("prod", Header("Bearer", TokenA), "s1", body) :
            body \in MalformedBodies}

\* What a tool handler does when it runs: it returns or it raises.
ToolOutcomes == {"ok", "raise"}

\* The tools/call requests among the requests: their tool handler may raise.
ToolCalls ==
    {r \in McpRequests : r.body.text = "json" /\ r.body.value.method = "tools/call"}

\* The clock steps by the lifetime of a session.
McpTicks == {SESSION_EXPIRY_HOURS * 60}

\* The step leaves at most n sessions in the table.
SessionsWithin(n) == Cardinality(DOMAIN mcp_sessions') <= n

McpNext ==
    \/ \E r \in McpRequests : _handle_post(r, "ok") /\ SessionsWithin(MaxSessions)
    \/ \E r \in ToolCalls : _handle_post(r, "raise") /\ SessionsWithin(MaxSessions)
    \/ \E d \in McpTicks : Tick(d)

McpSpec == Init /\ [][McpNext]_vars

(***************************************************************************)
(* The step answers the request mcp_req'.                                  *)
(***************************************************************************)
Answered ==
    /\ mcp_req'.endpoint = "mcp"
    /\ \E tool_outcome \in ToolOutcomes : _handle_post(mcp_req', tool_outcome)

\* The bearer token of request r: what follows the scheme word.
BearerOf(r) == decode(split_header(r.authorization)[2])

\* Request r carries, as "Bearer <token>", an access token that the server
\* signed and that has not expired.
HasValidToken(r) ==
    /\ Len(split_header(r.authorization)) = 2
    /\ lower(split_header(r.authorization)[1].text) = "bearer"
    /\ BearerOf(r).kind = "jwt"
    /\ BearerOf(r).sig = jwt_secret_key
    /\ BearerOf(r).exp >= now
    /\ BearerOf(r).token_type = "access_token"

\* The body of request r is a JSON-RPC 2.0 request object with a method.
IsJsonRpc(r) ==
    /\ r.body.text = "json"
    /\ r.body.value.type = "object"
    /\ r.body.value.jsonrpc = "2.0"
    /\ r.body.value.method # ""

\* The response is the JSON-RPC error with this code.
RejectedWith(response, code) ==
    /\ response.status = 200
    /\ response.body.kind = "error"
    /\ response.body.code = code

(***************************************************************************)
(* C8: a JSON-RPC request, of any method but initialize and                *)
(* notifications/cancelled, that presents the id of a session created for  *)
(* one user together with a valid access token of another user is rejected *)
(* with InvalidSession (-32002); no method handler and no tool handler     *)
(* runs, and the session, its last_activity_at included, stays as it is.   *)
(***************************************************************************)
C8_ForeignSessionRejected ==
    [][(/\ Answered
        /\ HasValidToken(mcp_req')
        /\ IsJsonRpc(mcp_req')
        /\ mcp_req'.body.value.method \notin {"initialize", "notifications/cancelled"}
        /\ mcp_req'.session_id \in DOMAIN mcp_sessions
        /\ mcp_sessions[mcp_req'.session_id].user_id # BearerOf(mcp_req').sub)
       => /\ RejectedWith(mcp_resp', MCP_INVALID_SESSION)
          /\ mcp_resp'.body.code = -32002
          /\ mcp_ran' = NothingRan
          /\ mcp_sessions' = mcp_sessions
      ]_vars

\* User u2 called a tool on the live session of user u1 and was rejected.
C8_Witness ==
    /\ mcp_req.endpoint = "mcp"
    /\ IsJsonRpc(mcp_req)
    /\ mcp_req.body.value.method = "tools/call"
    /\ HasValidToken(mcp_req)
    /\ BearerOf(mcp_req).sub = "u2"
    /\ mcp_req.session_id \in DOMAIN mcp_sessions
    /\ mcp_sessions[mcp_req.session_id].user_id = "u1"
    /\ mcp_sessions[mcp_req.session_id].expires_at > now
    /\ mcp_sessions[mcp_req.session_id].last_activity_at = NULL
    /\ RejectedWith(mcp_resp, MCP_INVALID_SESSION)

(***************************************************************************)
(* C9: a POST, of any method, without Authorization header, or whose       *)
(* header is not "Bearer <token>" with a token that the server signed,     *)
(* that has not expired and that is of type access_token, is answered 401  *)
(* with a WWW-Authenticate header that names the protected-resource        *)
(* metadata URL of the issuer; no session is created or changed and no     *)
(* handler runs.                                                           *)
(***************************************************************************)
C9_UnauthenticatedIs401 ==
    [][(Answered /\ ~HasValidToken(mcp_req'))
       => /\ mcp_resp'.status = 401
          /\ mcp_resp'.www_authenticate =
                 "Bearer resource_metadata=https://herald.example"
                     \o (IF mcp_req'.stage = "prod" THEN "/prod" ELSE "")
                     \o "/.well-known/oauth-protected-resource"
          /\ mcp_resp'.body.kind = "http_error"
          /\ mcp_ran' = NothingRan
          /\ mcp_sessions' = mcp_sessions
      ]_vars

\* An initialize with an expired token was answered 401, and the table of
\* sessions holds a session created before.
C9_Witness ==
    /\ mcp_req.endpoint = "mcp"
    /\ mcp_req.authorization = Header("Bearer", ExpiredToken)
    /\ mcp_req.body.value.method = "initialize"
    /\ mcp_resp.status = 401
    /\ mcp_resp.www_authenticate # ""
    /\ DOMAIN mcp_sessions # {}

(***************************************************************************)
(* C10: a JSON-RPC request with a valid access token and no session id,    *)
(* whose method is neither initialize nor a notification method, is        *)
(* rejected with NotInitialized (-32000), which is not the code of         *)
(* InvalidSession (-32002); no method handler and no tool handler runs.    *)
(***************************************************************************)
C10_NoSessionIsNotInitialized ==
    [][(/\ Answered
        /\ HasValidToken(mcp_req')
        /\ IsJsonRpc(mcp_req')
        /\ mcp_req'.body.value.method \notin
               {"initialize", "notifications/initialized", "notifications/cancelled"}
        /\ mcp_req'.session_id = "")
       => /\ RejectedWith(mcp_resp', MCP_NOT_INITIALIZED)
          /\ mcp_resp'.body.code = -32000
          /\ mcp_resp'.body.code # MCP_INVALID_SESSION
          /\ mcp_ran' = NothingRan
          /\ mcp_sessions' = mcp_sessions
      ]_vars

\* A user with a live session called a tool without naming the session.
C10_Witness ==
    /\ mcp_req.endpoint = "mcp"
    /\ IsJsonRpc(mcp_req)
    /\ mcp_req.body.value.method = "tools/call"
    /\ HasValidToken(mcp_req)
    /\ mcp_req.session_id = ""
    /\ \E id \in DOMAIN mcp_sessions :
           /\ mcp_sessions[id].user_id = BearerOf(mcp_req).sub
           /\ mcp_sessions[id].expires_at > now
    /\ RejectedWith(mcp_resp, MCP_NOT_INITIALIZED)

(***************************************************************************)
(* Sessions over their lifetime: users u1 and u2 initialize and use        *)
(* sessions while the clock advances by half the lifetime of a session, so *)
(* that a session is used between its creation and its expiry.             *)
(***************************************************************************)
\* The ids secrets.token_urlsafe(32) gives to the sessions of a behaviour,
\* and an id it never gave.
LifetimeSessionIds == {"s" \o ToString(i) : i \in 1..(MaxSessions + 1)}
UnknownSessionId == "s9"

LifetimeRequests ==
    {McpRequest("prod", Header("Bearer", TokenA), id, body) :
        id \in LifetimeSessionIds \cup {"", UnknownSessionId},
        body \in {Call("initialize", <<1>>, ""),
                  Call("tools/list", <<1>>, ""),
                  Call("notifications/initialized", None, "")}}
    \cup {McpRequest("prod", Header("Bearer", TokenA), "s1", body) :
            body \in {Call("ping", <<1>>, ""),
                      Call("tools/call", <<1>>, "list_buckets"),
                      Call("resources/list", <<1>>, ""),
                      [Call("initialize", <<1>>, "") EXCEPT !.value.id = None]}}
    \cup {McpRequest("prod", Header("Bearer", TokenA), "", Call("resources/list", <<1>>, ""))}
    \cup {McpRequest("prod", Header("Bearer", TokenB), id, body) :
            id \in {"", "s1"},
            body \in {Call("initialize", <<1>>, ""), Call("tools/list", <<1>>, "")}}

\* The clock steps by half the lifetime of a session.
LifetimeTicks == {(SESSION_EXPIRY_HOURS * 60) \div 2}

\* The clock advances by d minutes, at most n times in a behaviour.
TickWithin(d, n) ==
    /\ ticks < n
    /\ now' = now + d
    /\ ticks' = ticks + 1
    /\ UNCHANGED <<oauth_vars, mcp_vars, secret_vars, pkce>>

LifetimeNext ==
    \/ \E r \in LifetimeRequests :
           _handle_post(r, "ok") /\ SessionsWithin(MaxSessions + 1)
    \/ \E d \in LifetimeTicks : TickWithin(d, MaxTicks + 1)

LifetimeSpec == Init /\ [][LifetimeNext]_vars

\* The session with this id has expired: the clock has reached its expires_at.
Expired(id) == id \in DOMAIN mcp_sessions /\ mcp_sessions[id].expires_at <= now

\* The method of request r needs a session: _handle_method validates the
\* session before it handles the method.
NeedsSession(r) ==
    /\ IsJsonRpc(r)
    /\ r.body.value.method \notin {"initialize", "notifications/cancelled"}

(***************************************************************************)
(* C11: a request with a valid access token whose method needs a session   *)
(* and that presents a session id the table does not hold, or the id of a  *)
(* session whose expires_at the clock has reached, fails with              *)
(* InvalidSession and changes nothing, whenever the session was last used; *)
(* and a session that has expired is still there and still expired after   *)
(* every step, so no later request with it succeeds.                       *)
(***************************************************************************)
C11_ExpiredSessionStaysInvalid ==
    [][/\ (/\ Answered
           /\ HasValidToken(mcp_req')
           /\ NeedsSession(mcp_req')
           /\ mcp_req'.session_id # ""
           /\ \/ mcp_req'.session_id \notin DOMAIN mcp_sessions
              \/ Expired(mcp_req'.session_id))
          => /\ RejectedWith(mcp_resp', MCP_INVALID_SESSION)
             /\ mcp_ran' = NothingRan
             /\ mcp_sessions' = mcp_sessions
       /\ \A id \in DOMAIN mcp_sessions : Expired(id) => Expired(id)'
      ]_vars

\* A session was used half a day after its creation and, presented by its
\* user at the minute it expires, was rejected.
C11_Witness ==
    /\ mcp_req.endpoint = "mcp"
    /\ HasValidToken(mcp_req)
    /\ NeedsSession(mcp_req)
    /\ mcp_req.session_id \in DOMAIN mcp_sessions
    /\ mcp_sessions[mcp_req.session_id].user_id = BearerOf(mcp_req).sub
    /\ mcp_sessions[mcp_req.session_id].expires_at = now
    /\ mcp_sessions[mcp_req.session_id].last_activity_at
           > now - SESSION_EXPIRY_HOURS * 60
    /\ RejectedWith(mcp_resp, MCP_INVALID_SESSION)

\* The methods _handle_method routes to a handler.
KnownMethods ==
    {"initialize", "notifications/initialized", "notifications/cancelled",
     "tools/list", "tools/call", "ping"}

\* Request r has a valid access token and a method that is not routed.
UnknownMethod(r) ==
    /\ HasValidToken(r)
    /\ IsJsonRpc(r)
    /\ r.body.value.method \notin KnownMethods

\* The session id of request r is that of an unexpired session of the user
\* of its token.
HasValidSession(r) ==
    /\ r.session_id \in DOMAIN mcp_sessions
    /\ mcp_sessions[r.session_id].expires_at > now
    /\ mcp_sessions[r.session_id].user_id = BearerOf(r).sub

(***************************************************************************)
(* C12 as stated: a request with a valid access token and a method that is *)
(* not routed fails with MethodNotFound (-32601), with or without a        *)
(* session id and whether or not the session is valid.                     *)
(***************************************************************************)
C12_UnknownMethodIsMethodNotFound ==
    [][(Answered /\ UnknownMethod(mcp_req'))
       => RejectedWith(mcp_resp', METHOD_NOT_FOUND)
      ]_vars

(***************************************************************************)
(* C12, amended: a request with a valid access token and a method that is  *)
(* not routed fails with MethodNotFound (-32601) when it presents a valid  *)
(* session; with no session id it fails with NotInitialized, and with an   *)
(* unknown, expired or foreign session with InvalidSession.  No handler    *)
(* runs in any of these cases.                                             *)
(***************************************************************************)
C12_UnknownMethodAfterSessionCheck ==
    [][(Answered /\ UnknownMethod(mcp_req'))
       => /\ mcp_ran' = NothingRan
          /\ IF mcp_req'.session_id = ""
             THEN RejectedWith(mcp_resp', MCP_NOT_INITIALIZED)
             ELSE IF ~HasValidSession(mcp_req')
             THEN RejectedWith(mcp_resp', MCP_INVALID_SESSION)
             ELSE /\ RejectedWith(mcp_resp', METHOD_NOT_FOUND)
                  /\ mcp_resp'.body.code = -32601
      ]_vars

\* resources/list on a valid session was answered MethodNotFound.
C12_Witness ==
    /\ mcp_req.endpoint = "mcp"
    /\ UnknownMethod(mcp_req)
    /\ HasValidSession(mcp_req)
    /\ mcp_sessions[mcp_req.session_id].last_activity_at = now
    /\ RejectedWith(mcp_resp, METHOD_NOT_FOUND)

(***************************************************************************)
(* C13: a JSON-RPC request without id that carries a valid access token is *)
(* acknowledged with an empty success and no response body, for every      *)
(* method and every state of the session it names; it never gets a         *)
(* JSON-RPC result or error body.                                          *)
(***************************************************************************)
C13_NotificationGetsNoBody ==
    [][(/\ Answered
        /\ HasValidToken(mcp_req')
        /\ IsJsonRpc(mcp_req')
        /\ mcp_req'.body.value.id = None)
       => /\ mcp_resp'.status \in {200, 202, 204}
          /\ mcp_resp'.body.kind = "empty"
      ]_vars

\* Request r has a valid access token and calls a tool of the registry.
CallsRegisteredTool(r) ==
    /\ HasValidToken(r)
    /\ IsJsonRpc(r)
    /\ r.body.value.method = "tools/call"
    /\ r.body.value.params.is_object
    /\ r.body.value.params.name \in DOMAIN TOOLS_REGISTRY

\* The token of request r carries the scope the tool needs, or admin.
HasToolScope(r) ==
    \/ TOOLS_REGISTRY[r.body.value.params.name] \in ScopeSet(BearerOf(r).scope)
    \/ "admin" \in ScopeSet(BearerOf(r).scope)

(***************************************************************************)
(* C14: a tool handler runs only for a tools/call on a registered tool     *)
(* that presents a valid session and a token whose scope holds the tool's  *)
(* required_scope or admin; a tools/call on a registered tool with a valid *)
(* session whose token holds neither runs no tool handler and is answered  *)
(* HTTP 200 with a JSON-RPC error whose message names the required scope.  *)
(***************************************************************************)
C14_ToolNeedsScope ==
    [][Answered
       => /\ mcp_ran'.tool # ""
             => /\ CallsRegisteredTool(mcp_req')
                /\ mcp_ran'.tool = mcp_req'.body.value.params.name
                /\ HasValidSession(mcp_req')
                /\ HasToolScope(mcp_req')
          /\ (/\ CallsRegisteredTool(mcp_req')
              /\ HasValidSession(mcp_req')
              /\ ~HasToolScope(mcp_req'))
             => /\ mcp_ran'.tool = ""
                /\ mcp_resp'.status = 200
                /\ mcp_resp'.body.kind = "error"
                /\ mcp_resp'.body.id = mcp_req'.body.value.id
                /\ mcp_resp'.body.message =
                       "Insufficient scope. Required: "
                           \o TOOLS_REGISTRY[mcp_req'.body.value.params.name]
      ]_vars

\* delete_file, which needs the scope delete, was called on a valid session
\* with a token of scope "read write" and refused.
C14_Witness ==
    /\ mcp_req.endpoint = "mcp"
    /\ CallsRegisteredTool(mcp_req)
    /\ HasValidSession(mcp_req)
    /\ mcp_req.body.value.params.name = "delete_file"
    /\ ScopeSet(BearerOf(mcp_req).scope) = {"read", "write"}
    /\ mcp_ran.tool = ""
    /\ mcp_resp.status = 200
    /\ mcp_resp.body.message = "Insufficient scope. Required: delete"

(***************************************************************************)
(* C15: when the tool handler that a tools/call runs raises an exception,  *)
(* the client receives a JSON-RPC result (a content result with isError    *)
(* set), not a JSON-RPC error object.                                      *)
(***************************************************************************)
C15_ToolFailureIsResult ==
    [][(/\ mcp_req'.endpoint = "mcp"
        /\ _handle_post(mcp_req', "raise")
        /\ mcp_ran'.tool # "")
       => /\ mcp_resp'.status = 200
          /\ mcp_resp'.body.kind = "result"
      ]_vars

\* Request r is an initialize with a valid access token and an object (or
\* no) params member.
IsInitialize(r) ==
    /\ HasValidToken(r)
    /\ IsJsonRpc(r)
    /\ r.body.value.method = "initialize"
    /\ r.body.value.params.is_object

C17_OnlyLastActivityChanges ==
    [][/\ \A id \in DOMAIN mcp_sessions :
              /\ id \in DOMAIN mcp_sessions'
              /\ mcp_sessions'[id].user_id = mcp_sessions[id].user_id
              /\ mcp_sessions'[id].tenant_id = mcp_sessions[id].tenant_id
              /\ mcp_sessions'[id].expires_at = mcp_sessions[id].expires_at
              /\ mcp_sessions'[id] # mcp_sessions[id]
                 => /\ Answered
                    /\ HasValidToken(mcp_req')
                    /\ NeedsSession(mcp_req')
                    /\ mcp_req'.session_id = id
                    /\ HasValidSession(mcp_req')
                    /\ mcp_sessions'[id].last_activity_at = now
       /\ (/\ Answered
           /\ HasValidToken(mcp_req')
           /\ NeedsSession(mcp_req')
           /\ ~HasValidSession(mcp_req'))
          => mcp_sessions' = mcp_sessions
      ]_vars

\* A session was used half a day after its creation: its last_activity_at
\* is the time of that request, and its expires_at is still 24 hours after
\* its creation.
C17_Witness ==
    /\ mcp_req.endpoint = "mcp"
    /\ NeedsSession(mcp_req)
    /\ HasValidSession(mcp_req)
    /\ mcp_resp.body.kind = "result"
    /\ mcp_sessions[mcp_req.session_id].last_activity_at = now
    /\ mcp_sessions[mcp_req.session_id].expires_at
           = now + (SESSION_EXPIRY_HOURS * 60) \div 2

(***************************************************************************)
(* oauth/tokens.py with no jwt_secret_key configured: each process gets    *)
(* the signing secret from table settings the first time it needs it, and  *)
(* generates and stores one when the table has none.  The processes are    *)
(* the Lambda execution environments: each has its own module cache        *)
(* _jwt_secret, None ("") until the first call.                            *)
(***************************************************************************)
\* secrets.token_urlsafe(64) in process p: a value no other process draws.
new_jwt_secret(p) == "k_" \o p

\* _get_jwt_secret in a cold process, up to the SELECT: a stored secret is
\* cached and returned; with none stored the process goes on to generate.
_get_jwt_secret_select(p) ==
    /\ secret_pc[p] = "cold"
    /\ IF settings # ""
       THEN /\ _jwt_secret' = [_jwt_secret EXCEPT ![p] = settings]
            /\ secret_pc' = [secret_pc EXCEPT ![p] = "warm"]
       ELSE /\ secret_pc' = [secret_pc EXCEPT ![p] = "generate"]
            /\ UNCHANGED _jwt_secret
    /\ UNCHANGED <<now, ticks, oauth_vars, mcp_vars, settings, signed, verified, pkce>>

\* _get_jwt_secret after a SELECT that found nothing: a new secret is
\* cached, then written with INSERT ... ON CONFLICT (key) DO UPDATE.
_get_jwt_secret_generate(p) ==
    /\ secret_pc[p] = "generate"
    /\ _jwt_secret' = [_jwt_secret EXCEPT ![p] = new_jwt_secret(p)]
    /\ settings' = new_jwt_secret(p)
    /\ secret_pc' = [secret_pc EXCEPT ![p] = "warm"]
    /\ UNCHANGED <<now, ticks, oauth_vars, mcp_vars, signed, verified, pkce>>

\* create_access_token in a warm process: jwt.encode with the cached secret.
sign_access_token(p) ==
    /\ secret_pc[p] = "warm"
    /\ signed' = [by |-> p, sig |-> _jwt_secret[p]]
    /\ UNCHANGED <<now, ticks, oauth_vars, mcp_vars, settings, _jwt_secret,
                   secret_pc, verified, pkce>>

\* verify_token in a warm process: jwt.decode with the cached secret of the
\* token signed last.
verify_signed_token(p) ==
    /\ secret_pc[p] = "warm"
    /\ signed # NotSigned
    /\ verified' = [by |-> p, token |-> signed, ok |-> signed.sig = _jwt_secret[p]]
    /\ UNCHANGED <<now, ticks, oauth_vars, mcp_vars, settings, _jwt_secret,
                   secret_pc, signed, pkce>>

SecretNext ==
    \/ \E p \in Processes : _get_jwt_secret_select(p)
    \/ \E p \in Processes : _get_jwt_secret_generate(p)
    \/ \E p \in Processes : sign_access_token(p)
    \/ \E p \in Processes : verify_signed_token(p)

SecretSpec == Init /\ [][SecretNext]_vars

(***************************************************************************)
(* C18: once every process has established its signing secret, each holds  *)
(* the secret that table settings holds, and every access token a process  *)
(* has signed verifies in every process.                                   *)
(***************************************************************************)
C18_SecretConverges ==
    /\ (\A p \in Processes : secret_pc[p] = "warm")
       => \A p \in Processes : _jwt_secret[p] = settings
    /\ verified.ok

(***************************************************************************)
(* Tokens at the wrong endpoint: one client obtains an access token and a  *)
(* refresh token through the authorization code flow and then presents     *)
(* each where the other belongs, next to the proper uses.                  *)
(***************************************************************************)
\* The string jwt.encode returns for an access token, as a client sends it
\* in a form field.
jwt_encode(token) ==
    "jwt:" \o token.sub \o ":" \o token.client_id \o ":" \o ToString(token.iat)

\* A refresh-token secret in the place of a bearer token: text that is not
\* a JWT.
AsBearer(refresh_token) == [kind |-> "opaque", value |-> refresh_token]

\* token_type claims of signed tokens that are not access tokens.
OtherTokenTypes == {"refresh_token", "id_token", ""}

\* The token requests: the proper code exchange and refreshes, a grant type
\* that is not supported, and every issued access token sent as the
\* refresh_token of a refresh grant.
ConfusionToken ==
    {CodeRequest("code1", "v1", "c_pub", "")}
    \cup {RefreshRequest(token, "c_pub", "") : token \in RefreshTokens}
    \cup {[RefreshRequest("rt1", "c_pub", "") EXCEPT !.grant_type = "password"]}
    \cup {RefreshRequest(jwt_encode(i.access_token), "c_pub", "") : i \in issued}

\* The bearer tokens sent to /mcp: every issued access token, every issued
\* refresh-token secret, and every issued access token re-signed with
\* another token_type.
ConfusionBearers ==
    {i.access_token : i \in issued}
    \cup {AsBearer(i.refresh_token) : i \in issued}
    \cup {[i.access_token EXCEPT !.token_type = ty] : i \in issued, ty \in OtherTokenTypes}

ConfusionNext ==
    \/ \E r \in SeqAuthorize : _handle_authorize_post(SeqWorker, r)
    \/ \E r \in ConfusionToken : _handle_token(SeqWorker, r)
    \/ code_grant_mark_used(SeqWorker)
    \/ code_grant_issue(SeqWorker)
    \/ refresh_grant_revoke(SeqWorker)
    \/ refresh_grant_issue(SeqWorker)
    \/ \E token \in ConfusionBearers :
           /\ _handle_post(McpRequest("prod", Header("Bearer", token), "",
                                      Call("initialize", <<1>>, "")), "ok")
           /\ SessionsWithin(MaxSessions)

ConfusionSpec == Init /\ [][ConfusionNext]_vars

\* The step answers a POST /mcp whose bearer token is this token.
AnsweredBearer(token) ==
    /\ Answered
    /\ mcp_req'.authorization = Header("Bearer", token)

(***************************************************************************)
(* C19: a refresh-token secret sent as bearer token is not verified and is *)
(* answered 401; an access token sent as the refresh_token of a refresh    *)
(* grant is answered invalid_grant and nothing is issued or revoked; and a *)
(* signed, unexpired token whose token_type is not access_token is not     *)
(* verified and is answered 401.                                           *)
(***************************************************************************)
C19_TokenTypesNotConfused ==
    [][\A i \in issued :
          /\ ~verify_token(AsBearer(i.refresh_token))
          /\ AnsweredBearer(AsBearer(i.refresh_token))
             => /\ mcp_resp'.status = 401
                /\ mcp_sessions' = mcp_sessions
          /\ ~verify_refresh_token(jwt_encode(i.access_token)).found
          /\ _handle_token(SeqWorker,
                           RefreshRequest(jwt_encode(i.access_token), "c_pub", ""))
             => /\ resp'[SeqWorker].status = 400
                /\ resp'[SeqWorker].error = "invalid_grant"
                /\ oauth_refresh_tokens' = oauth_refresh_tokens
                /\ issued' = issued
          /\ \A ty \in OtherTokenTypes :
                 /\ ~verify_token([i.access_token EXCEPT !.token_type = ty])
                 /\ AnsweredBearer([i.access_token EXCEPT !.token_type = ty])
                    => /\ mcp_resp'.status = 401
                       /\ mcp_sessions' = mcp_sessions
      ]_vars

\* A refresh token that the refresh grant would accept was sent as bearer
\* token and answered 401, and the access token issued with it, which
\* verifies, was sent to the refresh grant and answered invalid_grant.
C19_Witness ==
    \E i \in issued :
        /\ Usable(i.refresh_token)
        /\ mcp_req.endpoint = "mcp"
        /\ mcp_req.authorization = Header("Bearer", AsBearer(i.refresh_token))
        /\ mcp_resp.status = 401
        /\ verify_token(i.access_token)
        /\ req[SeqWorker].endpoint = "token"
        /\ req[SeqWorker].refresh_token = jwt_encode(i.access_token)
        /\ resp[SeqWorker].error = "invalid_grant"

(***************************************************************************)
(* oauth/pkce.py as functions: a verifier, a method and a challenge are    *)
(* drawn; the challenge of the verifier is derived, verified against the   *)
(* verifier, and the drawn challenge is verified against the verifier.     *)
(***************************************************************************)
\* Verifiers: two of a client, one that reads like the S256 challenge of
\* another, one with a character outside ASCII.
PkceVerifiers == {"v1", "v2", "s256:v1"} \cup NonAsciiText

\* The methods of the claim and one that is not supported.
PkceMethods == {"S256", "plain", "S512"}

\* Challenges: those of the verifiers under either method, one with the
\* base64 padding left on, the empty one, one with a character outside ASCII.
PkceChallenges ==
    {"v1", "v2", "s256:v1", "s256:v2", "s256:s256:v1", "s256:v1=", ""}
    \cup NonAsciiText

PkceInit ==
    /\ InitStore
    /\ pkce \in {[NoPkceCall EXCEPT !.verifier = v, !.method = m, !.challenge = c,
                                    !.step = "drawn"] :
                    v \in PkceVerifiers, m \in PkceMethods, c \in PkceChallenges}

\* generate_code_challenge(verifier, method)
call_generate_code_challenge ==
    /\ pkce.step = "drawn"
    /\ pkce' = [pkce EXCEPT !.derived = generate_code_challenge(pkce.verifier, pkce.method),
                            !.step = "derived"]
    /\ UNCHANGED <<now, ticks, oauth_vars, mcp_vars, secret_vars>>

\* verify_code_challenge(verifier, generate_code_challenge(verifier, method), method)
call_verify_derived ==
    /\ pkce.step = "derived"
    /\ pkce' = [pkce EXCEPT
                   !.round_trip =
                       verify_code_challenge_outcome(pkce.verifier, pkce.derived, pkce.method),
                   !.step = "round_trip"]
    /\ UNCHANGED <<now, ticks, oauth_vars, mcp_vars, secret_vars>>

\* verify_code_challenge(verifier, challenge, method)
call_verify_challenge ==
    /\ pkce.step = "round_trip"
    /\ pkce' = [pkce EXCEPT
                   !.tampered =
                       verify_code_challenge_outcome(pkce.verifier, pkce.challenge, pkce.method),
                   !.step = "done"]
    /\ UNCHANGED <<now, ticks, oauth_vars, mcp_vars, secret_vars>>

PkceNext ==
    \/ call_generate_code_challenge
    \/ call_verify_derived
    \/ call_verify_challenge

PkceSpec == PkceInit /\ [][PkceNext]_vars

(***************************************************************************)
(* C20: for every verifier v and method m of S256 and plain,               *)
(* verify_code_challenge(v, generate_code_challenge(v, m), m) is true, and *)
(* for every challenge c other than generate_code_challenge(v, m),         *)
(* verify_code_challenge(v, c, m) is false.                                *)
(***************************************************************************)
C20_PkceRoundTrip ==
    (pkce.step = "done" /\ pkce.method \in {"S256", "plain"})
    => /\ pkce.round_trip = "True"
       /\ pkce.challenge # pkce.derived => pkce.tampered = "False"

(***************************************************************************)
(* The token endpoint and PKCE: one invocation at a time; codes are issued *)
(* for a S256 challenge, for a plain challenge and for a challenge whose   *)
(* method generate_code_challenge does not know (the authorize endpoint    *)
(* stores code_challenge_method as it comes), and they are redeemed with   *)
(* the right verifier, a wrong one, and one that is not ASCII text.        *)
(***************************************************************************)
PkceAuthorize ==
    {AuthorizeRequest("c_pub", <<>>, "a@x", "pw1"),
     [AuthorizeRequest("c_pub", <<>>, "a@x", "pw1")
         EXCEPT !.code_challenge = "v1", !.code_challenge_method = "plain"],
     [AuthorizeRequest("c_pub", <<>>, "a@x", "pw1")
         EXCEPT !.code_challenge_method = "S512"]}

PkceVerifiersSent == {"v1", "v2", "v1_e_acute"}

PkceToken ==
    {CodeRequest(code, verifier, "c_pub", "") :
        code \in Codes, verifier \in PkceVerifiersSent}
    \cup {RefreshRequest("rt1", "c_pub", "")}
    \cup {[RefreshRequest("rt1", "c_pub", "") EXCEPT !.grant_type = "password"]}

PkceExchangeNext ==
    \/ \E r \in PkceAuthorize : _handle_authorize_post(SeqWorker, r)
    \/ \E r \in PkceToken : _handle_token(SeqWorker, r)
    \/ code_grant_mark_used(SeqWorker)
    \/ code_grant_issue(SeqWorker)
    \/ refresh_grant_revoke(SeqWorker)
    \/ refresh_grant_issue(SeqWorker)

PkceExchangeSpec == Init /\ [][PkceExchangeNext]_vars

\* The request presents a stored authorization code.
PresentsStoredCode(r) ==
    /\ r.grant_type = "authorization_code"
    /\ r.code \in DOMAIN oauth_authorization_codes

\* The verifier of the request derives the challenge stored with its code.
VerifierDerivesChallenge(r) ==
    LET auth_code == oauth_authorization_codes[r.code] IN
    generate_code_challenge(r.code_verifier, auth_code.code_challenge_method)
        = auth_code.code_challenge

(***************************************************************************)
(* C21: an authorization_code exchange passes the checks of the grant only *)
(* with a code_verifier whose challenge, derived with the method stored    *)
(* with the code, equals the challenge stored with the code; an exchange   *)
(* that presents any other verifier is answered invalid_grant and leaves   *)
(* the code as it was.  (Stated for codes stored with a method that        *)
(* generate_code_challenge knows.)                                         *)
(***************************************************************************)
C21_ExchangeNeedsMatchingVerifier ==
    [][\A r \in PkceToken :
          (/\ PresentsStoredCode(r)
           /\ pkce_method_supported(
                  oauth_authorization_codes[r.code].code_challenge_method)
           /\ r.code_verifier # ""
           /\ ~VerifierDerivesChallenge(r)
           /\ _handle_token(SeqWorker, r))
          => /\ pc'[SeqWorker] = "idle"
             /\ resp'[SeqWorker].error = "invalid_grant"
             /\ oauth_authorization_codes' = oauth_authorization_codes
      ]_vars

(***************************************************************************)
(* C30: verify_code_challenge with a method other than S256 or plain ends  *)
(* in an error (ValueError) and does not return false; an exchange for a   *)
(* code stored with such a method is answered 400 invalid_request,         *)
(* whatever the verifier, and the code is not marked used.                 *)
(***************************************************************************)
C30_UnsupportedMethodIsAnError ==
    [][\A r \in PkceToken :
          (/\ PresentsStoredCode(r)
           /\ oauth_authorization_codes[r.code].code_challenge_method
                  \notin {"S256", "plain"}
           /\ _handle_token(SeqWorker, r))
          => /\ verify_code_challenge_outcome(
                    r.code_verifier,
                    oauth_authorization_codes[r.code].code_challenge,
                    oauth_authorization_codes[r.code].code_challenge_method)
                 = "ValueError"
             /\ pc'[SeqWorker] = "idle"
             /\ resp'[SeqWorker].status = 400
             /\ resp'[SeqWorker].error = "invalid_request"
             /\ oauth_authorization_codes' = oauth_authorization_codes
             /\ oauth_refresh_tokens' = oauth_refresh_tokens
      ]_vars

\* A fresh code stored with method S512 was presented with the verifier of
\* its challenge; the exchange was answered with the error of the
\* unsupported method and the code is still unused.
C30_Witness ==
    /\ pc[SeqWorker] = "idle"
    /\ req[SeqWorker].endpoint = "token"
    /\ PresentsStoredCode(req[SeqWorker])
    /\ req[SeqWorker].code_verifier = "v1"
    /\ oauth_authorization_codes[req[SeqWorker].code].code_challenge_method = "S512"
    /\ oauth_authorization_codes[req[SeqWorker].code].code_challenge = s256("v1")
    /\ oauth_authorization_codes[req[SeqWorker].code].used_at = NULL
    /\ resp[SeqWorker].error_description = "Unsupported code challenge method"

(***************************************************************************)
(* The token endpoint and redirect_uri: one invocation at a time; a code   *)
(* is issued for https://app.example/cb and redeemed with that             *)
(* redirect_uri, with another one, and with none.                          *)
(***************************************************************************)
RedirectAuthorize == {AuthorizeRequest("c_pub", <<>>, "a@x", "pw1")}

RedirectUrisSent == {"https://app.example/cb", "https://evil.example/cb", ""}

RedirectToken ==
    {[CodeRequest(code, "v1", "c_pub", "") EXCEPT !.redirect_uri = uri] :
        code \in Codes, uri \in RedirectUrisSent}
    \cup {RefreshRequest(token, "c_pub", "") : token \in RefreshTokens}
    \cup {[RefreshRequest("rt1", "c_pub", "") EXCEPT !.grant_type = "password"]}

RedirectNext ==
    \/ \E r \in RedirectAuthorize : _handle_authorize_post(SeqWorker, r)
    \/ \E r \in RedirectToken : _handle_token(SeqWorker, r)
    \/ code_grant_mark_used(SeqWorker)
    \/ code_grant_issue(SeqWorker)
    \/ refresh_grant_revoke(SeqWorker)
    \/ refresh_grant_issue(SeqWorker)
    \/ \E d \in SeqTicks : Tick(d)

RedirectSpec == Init /\ [][RedirectNext]_vars

ClientAuthorize ==
    {AuthorizeRequest(client_id, <<>>, "a@x", "pw1") : client_id \in {"c_pub", "c_conf"}}

ClientSecretsSent == {"", "s3cret", "wrong"}

ClientToken ==
    {CodeRequest(code, "v1", client_id, client_secret) :
        code \in Codes, client_id \in {"c_pub", "c_conf"},
        client_secret \in ClientSecretsSent}
    \cup {[CodeRequest("code1", "v1", "c_pub", "") EXCEPT !.basic = basic] :
             basic \in {<<"c_conf", "s3cret">>, <<"c_conf", "wrong">>}}
    \cup {RefreshRequest("rt1", client_id, client_secret) :
             client_id \in {"c_pub", "c_conf"}, client_secret \in ClientSecretsSent}
    \cup {[RefreshRequest("rt1", "c_pub", "") EXCEPT !.grant_type = "password"]}

ClientNext ==
    \/ \E r \in ClientAuthorize : _handle_authorize_post(SeqWorker, r)
    \/ \E r \in ClientToken : _handle_token(SeqWorker, r)
    \/ code_grant_mark_used(SeqWorker)
    \/ code_grant_issue(SeqWorker)
    \/ refresh_grant_revoke(SeqWorker)
    \/ refresh_grant_issue(SeqWorker)

ClientSpec == Init /\ [][ClientNext]_vars

\* The request presents a stored refresh token.
PresentsStoredToken(r) ==
    /\ r.grant_type = "refresh_token"
    /\ sha256(r.refresh_token) \in DOMAIN oauth_refresh_tokens

\* Nothing was issued and no row was written.
NothingConsumed ==
    /\ oauth_authorization_codes' = oauth_authorization_codes
    /\ oauth_refresh_tokens' = oauth_refresh_tokens
    /\ issued' = issued

IsConfidential(client_id) ==
    has_client(client_id) /\ get_client(client_id).client_secret_hash # ""

\* The request proves the secret of its client.
PresentsMatchingSecret(r) ==
    LET cred == _extract_client_credentials(r) IN
    /\ cred[2] # ""
    /\ bcrypt_checkpw(cred[2], get_client(cred[1]).client_secret_hash)

\* Apart from the client secret, the exchange of the code is in order: the
\* code is unexpired and unused, it was issued to the client of the request
\* for the redirect_uri of the request, and the verifier derives its
\* challenge.
CodeExchangeInOrder(r) ==
    LET auth_code == oauth_authorization_codes[r.code] IN
    /\ auth_code.expires_at >= now
    /\ auth_code.used_at = NULL
    /\ auth_code.client_id = _extract_client_credentials(r)[1]
    /\ r.redirect_uri \in {"", auth_code.redirect_uri}
    /\ VerifierDerivesChallenge(r)

\* Apart from the client secret, the exchange of the refresh token is in
\* order: the token is usable and was issued to the client of the request.
RefreshExchangeInOrder(r) ==
    /\ Usable(r.refresh_token)
    /\ oauth_refresh_tokens[sha256(r.refresh_token)].client_id
           = _extract_client_credentials(r)[1]

urlparse(uri) ==
    CASE uri = "https://app.example/cb" ->
             [scheme |-> "https", hostname |-> <<"app", "example">>]
      [] uri = "https://evil.example/cb" ->
             [scheme |-> "https", hostname |-> <<"evil", "example">>]
      [] uri = "https://claude.ai/cb" ->
             [scheme |-> "https", hostname |-> <<"claude", "ai">>]
      [] uri = "https://api.claude.ai/cb" ->
             [scheme |-> "https", hostname |-> <<"api", "claude", "ai">>]
      [] uri = "https://evilclaude.ai/cb" ->
             [scheme |-> "https", hostname |-> <<"evilclaude", "ai">>]
      [] uri = "http://claude.ai/cb" ->
             [scheme |-> "http", hostname |-> <<"claude", "ai">>]
      [] uri = "http://localhost/cb" ->
             [scheme |-> "http", hostname |-> <<"localhost">>]
      [] OTHER -> [scheme |-> "", hostname |-> <<>>]

\* hostname == domain or hostname.endswith("." + domain), on labels.
host_matches(hostname, domain) ==
    \/ hostname = domain
    \/ /\ Len(hostname) > Len(domain)
       /\ SubSeq(hostname, Len(hostname) - Len(domain) + 1, Len(hostname)) = domain

\* uri.startswith("https://") or uri.startswith("http://localhost") or
\* uri.startswith("http://127.0.0.1"), for the texts urlparse knows.
uses_https_or_localhost(uri) ==
    LET parsed == urlparse(uri) IN
    \/ parsed.scheme = "https"
    \/ /\ parsed.scheme = "http"
       /\ parsed.hostname # <<>>
       /\ \/ parsed.hostname[1] = "localhost"
          \/ /\ Len(parsed.hostname) >= 4
             /\ SubSeq(parsed.hostname, 1, 4) = <<"127", "0", "0", "1">>

(***************************************************************************)
(* oauth/dcr.py: registration                                              *)
(***************************************************************************)
SUPPORTED_GRANT_TYPES == {"authorization_code", "refresh_token"}
SUPPORTED_RESPONSE_TYPES == {"code"}
SUPPORTED_TOKEN_ENDPOINT_AUTH_METHODS ==
    {"client_secret_basic", "client_secret_post", "none"}

\* raise ValueError(message)
RegistrationError(message) ==
    [error |-> message, client_id |-> "", client_secret |-> ""]

\* f"herald_{secrets.token_urlsafe(16)}": an id no client has.
new_client_id == "herald_" \o ToString(Cardinality(DOMAIN oauth_clients) + 1)

\* secrets.token_urlsafe(32): a secret no client has.
new_client_secret(client_id) == "secret_of_" \o client_id

generates_client_secret_always(token_endpoint_auth_method) == TRUE

\* if token_endpoint_auth_method != "none": a secret is generated and hashed.
generates_client_secret(token_endpoint_auth_method) ==
    token_endpoint_auth_method # "none"

\* The row INSERTed into oauth_clients; of its columns, those a handler reads.
client_row(client_secret, redirect_uris, token_endpoint_auth_method) ==
    [client_secret_hash |-> IF client_secret = "" THEN ""
                            ELSE bcrypt_hashpw(client_secret),
     redirect_uris |-> redirect_uris,
     token_endpoint_auth_method |-> token_endpoint_auth_method,
     is_active |-> TRUE]

\* register_client: the error it raises, or the client_id and client_secret
\* ("" for None) it stores and returns.  An empty grant_types or
\* response_types takes the default; client_id "" has one generated.
register_client(client_name, redirect_uris, grant_types, response_types, token_endpoint_auth_method, client_id) ==
    IF client_name = "" THEN RegistrationError("client_name is required")
    ELSE IF redirect_uris = {} THEN RegistrationError("redirect_uris is required")
    ELSE IF \E uri \in redirect_uris : ~uses_https_or_localhost(uri)
    THEN RegistrationError("Invalid redirect_uri. Must use HTTPS or localhost.")
    ELSE IF ~(grant_types \subseteq SUPPORTED_GRANT_TYPES)
    THEN RegistrationError("Unsupported grant_type")
    ELSE IF ~(response_types \subseteq SUPPORTED_RESPONSE_TYPES)
    THEN RegistrationError("Unsupported response_type")
    ELSE IF token_endpoint_auth_method \notin SUPPORTED_TOKEN_ENDPOINT_AUTH_METHODS
    THEN RegistrationError("Unsupported token_endpoint_auth_method")
    ELSE LET id == IF client_id = "" THEN new_client_id ELSE client_id IN
         [error |-> "",
          client_id |-> id,
          client_secret |-> IF generates_client_secret(token_endpoint_auth_method)
                            THEN new_client_secret(id) ELSE ""]

\* The registration response (RFC 7591): client_secret and
\* client_secret_expires_at are keys of it only when a secret was generated.
registration_response(result, redirect_uris, token_endpoint_auth_method) ==
    [status |-> 201, error |-> "", error_description |-> "",
     keys |-> {"client_id", "client_name", "redirect_uris", "grant_types",
               "response_types", "token_endpoint_auth_method", "scope"}
              \cup (IF result.client_secret # ""
                    THEN {"client_secret", "client_secret_expires_at"} ELSE {}),
     client_id |-> result.client_id,
     client_secret |-> result.client_secret,
     redirect_uris |-> redirect_uris,
     token_endpoint_auth_method |-> token_endpoint_auth_method]

validate_redirect_uri_any(client_id, redirect_uri) == has_client(client_id)

\* validate_redirect_uri: exact match with a registered URI.
validate_redirect_uri(client_id, redirect_uri) ==
    IF ~has_client(client_id) THEN FALSE
    ELSE redirect_uri \in get_client(client_id).redirect_uris

(***************************************************************************)
(* oauth/server.py: registration and authorize GET                         *)
(***************************************************************************)
ALLOWED_AUTO_REGISTER_DOMAINS ==
    {<<"claude", "ai">>, <<"localhost">>, <<"127", "0", "0", "1">>,
     <<"execute-api", "us-east-1", "amazonaws", "com">>}

_is_allowed_auto_register_uri_any(redirect_uri) == TRUE

_is_allowed_auto_register_uri(redirect_uri) ==
    LET hostname == urlparse(redirect_uri).hostname IN
    \E domain \in ALLOWED_AUTO_REGISTER_DOMAINS : host_matches(hostname, domain)

\* POST /oauth/register
_handle_register(p, r) ==
    /\ pc[p] = "idle"
    /\ UNCHANGED <<now, ticks, users, oauth_authorization_codes, oauth_refresh_tokens,
                   pc, local, issued, mcp_vars, secret_vars, pkce>>
    /\ LET token_endpoint_auth_method ==
               IF r.token_endpoint_auth_method = "" THEN "client_secret_basic"
               ELSE r.token_endpoint_auth_method
           result == register_client(r.client_name, r.redirect_uris, r.grant_types,
                                     r.response_types, token_endpoint_auth_method, "")
       IN  IF result.error # ""
           THEN /\ Return(p, r, _error_response(400, "invalid_request", result.error))
                /\ UNCHANGED oauth_clients
           ELSE /\ oauth_clients' =
                       (result.client_id :>
                           client_row(result.client_secret, r.redirect_uris,
                                      token_endpoint_auth_method))
                       @@ oauth_clients
                /\ Return(p, r, registration_response(result, r.redirect_uris,
                                                      token_endpoint_auth_method))

code_challenge_missing_never(code_challenge) == FALSE

\* if not code_challenge
code_challenge_missing(code_challenge) == code_challenge = ""

\* The login form, with the OAuth parameters in its hidden fields.
login_form(client_id, r) ==
    [status |-> 200, error |-> "", error_description |-> "login form",
     client_id |-> client_id, redirect_uri |-> r.redirect_uri,
     code_challenge |-> r.code_challenge]

\* GET /oauth/authorize
_handle_authorize_get(p, r) ==
    /\ pc[p] = "idle"
    /\ UNCHANGED <<now, ticks, users, oauth_authorization_codes, oauth_refresh_tokens,
                   pc, local, issued, mcp_vars, secret_vars, pkce>>
    /\ IF r.response_type # "code"
       THEN /\ Return(p, r, _error_response(400, "unsupported_response_type",
                                            "Only 'code' response type is supported"))
            /\ UNCHANGED oauth_clients
       ELSE IF r.redirect_uri = ""
       THEN /\ Return(p, r, _error_response(400, "invalid_request",
                                            "redirect_uri is required"))
            /\ UNCHANGED oauth_clients
       ELSE IF r.client_id = "" \/ ~has_client(r.client_id)
       THEN IF ~_is_allowed_auto_register_uri(r.redirect_uri)
            THEN /\ Return(p, r, _error_response(400, "invalid_request",
                                  "redirect_uri not allowed for auto-registration"))
                 /\ UNCHANGED oauth_clients
            ELSE LET result == register_client("Auto-registered", {r.redirect_uri},
                                               {}, {}, "none", r.client_id)
                 IN  IF result.error # ""
                     THEN /\ Return(p, r, _error_response(400, "invalid_request",
                                                          result.error))
                          /\ UNCHANGED oauth_clients
                     ELSE /\ oauth_clients' =
                                 (result.client_id :>
                                     client_row(result.client_secret,
                                                {r.redirect_uri}, "none"))
                                 @@ oauth_clients
                          /\ IF code_challenge_missing(r.code_challenge)
                             THEN Return(p, r, _error_response(400, "invalid_request",
                                             "code_challenge is required (PKCE)"))
                             ELSE Return(p, r, login_form(result.client_id, r))
       ELSE IF ~validate_redirect_uri(r.client_id, r.redirect_uri)
       THEN /\ Return(p, r, _error_response(400, "invalid_request",
                                            "Invalid redirect_uri for this client"))
            /\ UNCHANGED oauth_clients
       ELSE /\ UNCHANGED oauth_clients
            /\ IF code_challenge_missing(r.code_challenge)
               THEN Return(p, r, _error_response(400, "invalid_request",
                                                 "code_challenge is required (PKCE)"))
               ELSE Return(p, r, login_form(r.client_id, r))

(***************************************************************************)
(* The client registry: one invocation at a time; clients are registered   *)
(* explicitly (POST /oauth/register) and by authorize GET requests, with   *)
(* right and wrong parameters.                                             *)
(***************************************************************************)
RegisterRequest(client_name, redirect_uris, grant_types, token_endpoint_auth_method) ==
    [endpoint |-> "register",
     client_name |-> client_name,
     redirect_uris |-> redirect_uris,
     grant_types |-> grant_types,
     response_types |-> {},
     token_endpoint_auth_method |-> token_endpoint_auth_method]

AuthorizeGet(client_id, redirect_uri, response_type, code_challenge) ==
    [endpoint |-> "authorize_get",
     client_id |-> client_id,
     redirect_uri |-> redirect_uri,
     response_type |-> response_type,
     code_challenge |-> code_challenge]

\* Registrations: each supported auth method and the default (""), and one
\* request for each validation error of register_client.
RegistryRegister ==
    {RegisterRequest("App", {"https://app.example/cb"}, {}, method) :
        method \in {"", "client_secret_post", "none", "private_key_jwt"}}
    \cup {RegisterRequest("", {"https://app.example/cb"}, {}, "none"),
          RegisterRequest("App", {}, {}, "none"),
          RegisterRequest("App", {"http://claude.ai/cb"}, {}, "none"),
          RegisterRequest("App", {"https://app.example/cb"}, {"password"}, "none"),
          [RegisterRequest("App", {"https://app.example/cb"}, {}, "none")
              EXCEPT !.response_types = {"token"}]}

RegistryClientIds == {"", "c_pub", "c_new"}

RegistryRedirectUris ==
    {"https://app.example/cb", "https://claude.ai/cb", "https://api.claude.ai/cb",
     "https://evilclaude.ai/cb", "http://claude.ai/cb", ""}

RegistryAuthorizeGet ==
    {AuthorizeGet(client_id, redirect_uri, "code", code_challenge) :
        client_id \in RegistryClientIds, redirect_uri \in RegistryRedirectUris,
        code_challenge \in {s256("v1"), ""}}
    \cup {AuthorizeGet(client_id, "https://claude.ai/cb", "token", "") :
             client_id \in RegistryClientIds}

\* At most n clients have been registered since the initial state.
ClientsWithin(n) ==
    Cardinality(DOMAIN oauth_clients') <= Cardinality(DOMAIN InitClients) + n

RegistryNext ==
    \/ \E r \in RegistryRegister :
           _handle_register(SeqWorker, r) /\ ClientsWithin(MaxClients)
    \/ \E r \in RegistryAuthorizeGet :
           _handle_authorize_get(SeqWorker, r) /\ ClientsWithin(MaxClients)

RegistrySpec == Init /\ [][RegistryNext]_vars

(***************************************************************************)
(* C25: in every state of the client registry, for clients registered      *)
(* explicitly and for auto-registered clients alike, a client has a stored *)
(* client_secret_hash exactly if its token_endpoint_auth_method is not     *)
(* none; and a registration response has the key client_secret exactly in  *)
(* that case, the stored hash being the hash of the secret returned.       *)
(***************************************************************************)
C25_SecretIffNotPublic ==
    /\ \A c \in DOMAIN oauth_clients :
           (oauth_clients[c].client_secret_hash # "")
               <=> (oauth_clients[c].token_endpoint_auth_method # "none")
    /\ resp[SeqWorker].status = 201 =>
           /\ resp[SeqWorker].client_id \in DOMAIN oauth_clients
           /\ ("client_secret" \in resp[SeqWorker].keys)
                  <=> (resp[SeqWorker].token_endpoint_auth_method # "none")
           /\ oauth_clients[resp[SeqWorker].client_id].token_endpoint_auth_method
                  = resp[SeqWorker].token_endpoint_auth_method
           /\ "client_secret" \in resp[SeqWorker].keys =>
                  bcrypt_checkpw(resp[SeqWorker].client_secret,
                      oauth_clients[resp[SeqWorker].client_id].client_secret_hash)

\* A client was auto-registered under the id c_new, and a registration
\* without token_endpoint_auth_method then returned a client_secret.
C25_Witness ==
    /\ "c_new" \in DOMAIN oauth_clients
    /\ oauth_clients["c_new"].client_secret_hash = ""
    /\ resp[SeqWorker].status = 201
    /\ req[SeqWorker].token_endpoint_auth_method = ""
    /\ "client_secret" \in resp[SeqWorker].keys
    /\ oauth_clients[resp[SeqWorker].client_id].client_secret_hash # ""

\* The host of the URI is an allow-listed domain or a subdomain of one.
HostOnAllowList(uri) ==
    \E domain \in ALLOWED_AUTO_REGISTER_DOMAINS :
        LET hostname == urlparse(uri).hostname IN
        \/ hostname = domain
        \/ /\ Len(hostname) > Len(domain)
           /\ \A i \in 1..Len(domain) :
                  hostname[Len(hostname) - Len(domain) + i] = domain[i]

\* The request names no client, or one that is not registered.
ClientAbsentOrUnknown(r) == r.client_id = "" \/ r.client_id \notin DOMAIN oauth_clients

\* The response is the login form (LOGIN_PENDING).
IsLoginForm(x) == x.status = 200 /\ x.error_description = "login form"

\* The response is the error invalid_request.
IsInvalidRequest(x) == x.status = 400 /\ x.error = "invalid_request"

FlowAuthorizeGet ==
    {AuthorizeGet("c_pub", "https://app.example/cb", "code", s256("v1")),
     AuthorizeGet("c_pub", "https://evil.example/cb", "code", s256("v1")),
     AuthorizeGet("c_pub", "https://app.example/cb", "code", ""),
     AuthorizeGet("c_ghost", "https://evil.example/cb", "code", s256("v1")),
     AuthorizeGet("c_new", "https://claude.ai/cb", "code", s256("v1"))}

FlowAuthorizePost ==
    {AuthorizeRequest("c_pub", <<>>, "a@x", "pw1"),
     AuthorizeRequest("c_pub", <<>>, "a@x", "wrong"),
     [AuthorizeRequest("c_pub", <<>>, "a@x", "pw1")
         EXCEPT !.redirect_uri = "https://evil.example/cb"],
     [AuthorizeRequest("c_ghost", <<>>, "a@x", "pw1")
         EXCEPT !.redirect_uri = "https://evil.example/cb"],
     [AuthorizeRequest("c_pub", <<>>, "a@x", "pw1") EXCEPT !.code_challenge = ""],
     [AuthorizeRequest("c_new", <<>>, "b@x", "pw2")
         EXCEPT !.redirect_uri = "https://claude.ai/cb"]}

FlowNext ==
    \/ \E r \in FlowAuthorizeGet :
           _handle_authorize_get(SeqWorker, r) /\ ClientsWithin(MaxClients)
    \/ \E r \in FlowAuthorizePost : _handle_authorize_post(SeqWorker, r)

FlowSpec == Init /\ [][FlowNext]_vars

(***************************************************************************)
(* C29: an authorization code is issued only through the preceding steps   *)
(* of the flow: every authorization code stored by authorize POST belongs  *)
(* to a registered client, carries a redirect_uri registered for that      *)
(* client, and carries a non-empty code_challenge, as the checks of        *)
(* authorize GET require.                                                  *)
(***************************************************************************)
C29_IssuedCodePassedTheGetChecks ==
    \A c \in DOMAIN oauth_authorization_codes :
        LET auth_code == oauth_authorization_codes[c] IN
        /\ auth_code.client_id \in DOMAIN oauth_clients
        /\ auth_code.redirect_uri \in oauth_clients[auth_code.client_id].redirect_uris
        /\ auth_code.code_challenge # ""

(***************************************************************************)
(* The contract of revoke_refresh_token: one invocation at a time; refresh *)
(* tokens are issued and rotated by the token endpoint, the clock          *)
(* advances, and revoke_refresh_token is called with issued tokens, with   *)
(* tokens it has revoked before, and with a token that was never issued.   *)
(***************************************************************************)
RevokeToken ==
    {CodeRequest("code1", "v1", "c_pub", ""), RefreshRequest("rt1", "c_pub", "")}
    \cup {[RefreshRequest("rt1", "c_pub", "") EXCEPT !.grant_type = "password"]}

UnknownRefreshToken == "rt_unknown"

RevokeArguments == {"rt1", "rt2", UnknownRefreshToken}

\* revoke_refresh_token(token), called between two requests.
call_revoke_refresh_token(token) ==
    /\ pc[SeqWorker] = "idle"
    /\ oauth_refresh_tokens' = revoke_refresh_token(token)
    /\ UNCHANGED <<now, ticks, users, oauth_clients, oauth_authorization_codes,
                   pc, req, local, resp, issued, mcp_vars, secret_vars, pkce>>

RevokeNext ==
    \/ \E r \in SeqAuthorize : _handle_authorize_post(SeqWorker, r)
    \/ \E r \in RevokeToken : _handle_token(SeqWorker, r)
    \/ code_grant_mark_used(SeqWorker)
    \/ code_grant_issue(SeqWorker)
    \/ refresh_grant_revoke(SeqWorker)
    \/ refresh_grant_issue(SeqWorker)
    \/ \E token \in RevokeArguments : call_revoke_refresh_token(token)
    \/ \E d \in SeqTicks : Tick(d)

RevokeSpec == Init /\ [][RevokeNext]_vars

\* The hashes of the revoked refresh tokens.
RevokedTokens ==
    {h \in DOMAIN oauth_refresh_tokens : oauth_refresh_tokens[h].revoked_at # NULL}

\* The refresh tokens verify_refresh_token accepts.
AcceptedTokens ==
    {token \in RefreshTokens \cup {UnknownRefreshToken} : Usable(token)}

(***************************************************************************)
(* C31: revoke_refresh_token is idempotent and total: called with a token  *)
(* that has no record it changes no record; called with a token that is    *)
(* already revoked it leaves the set of revoked tokens and the set of      *)
(* tokens verify_refresh_token accepts as they were; after any call the    *)
(* token is revoked if it has a record; and a revoked token stays revoked  *)
(* and is never accepted again, whatever happens next.                     *)
(***************************************************************************)
C31_RevokeIsIdempotent ==
    [][/\ \A token \in RevokeArguments :
              call_revoke_refresh_token(token) =>
                  /\ sha256(token) \notin DOMAIN oauth_refresh_tokens =>
                         oauth_refresh_tokens' = oauth_refresh_tokens
                  /\ sha256(token) \in RevokedTokens =>
                         /\ RevokedTokens' = RevokedTokens
                         /\ AcceptedTokens' = AcceptedTokens
                  /\ sha256(token) \in DOMAIN oauth_refresh_tokens =>
                         /\ sha256(token) \in RevokedTokens'
                         /\ RevokedTokens' = RevokedTokens \cup {sha256(token)}
       /\ \A token \in RevokeArguments :
              sha256(token) \in RevokedTokens =>
                  /\ sha256(token) \in RevokedTokens'
                  /\ token \notin AcceptedTokens'
      ]_vars

\* The token rt1 was rotated, which revoked it and issued its successor, and
\* was revoked again at a later time; the successor is still accepted.
C31_Witness ==
    \E i \in Rotations("rt1") :
        /\ oauth_refresh_tokens[sha256("rt1")].revoked_at
               + refresh_token_expire_days * 24 * 60
           > oauth_refresh_tokens[sha256(i.refresh_token)].expires_at
        /\ Usable(i.refresh_token)
        /\ ~Usable("rt1")

(***************************************************************************)
(* C32: within a check family the failure outcome does not depend on the   *)
(* sub-check that failed: in any state, any two authorization_code         *)
(* exchanges that fail one of the checks of the grant (code missing,       *)
(* expired, already used, client mismatch, redirect mismatch, wrong        *)
(* verifier) are answered with the same response, and so are any two       *)
(* refresh_token exchanges that fail one of the checks of theirs.          *)
(***************************************************************************)
C32_OneFailureOutcomePerFamily ==
    /\ \A r1, r2 \in {r \in SeqToken : r.grant_type = "authorization_code"} :
           LET c1 == _extract_client_credentials(r1)
               c2 == _extract_client_credentials(r2)
               x1 == code_grant_check(r1, c1[1], c1[2])
               x2 == code_grant_check(r2, c2[1], c2[2])
           IN  (x1.error = "invalid_grant" /\ x2.error = "invalid_grant") => x1 = x2
    /\ \A r1, r2 \in {r \in SeqToken : r.grant_type = "refresh_token"} :
           LET c1 == _extract_client_credentials(r1)
               c2 == _extract_client_credentials(r2)
               x1 == refresh_grant_check(r1, c1[1], c1[2])
               x2 == refresh_grant_check(r2, c2[1], c2[2])
           IN  (x1.error = "invalid_grant" /\ x2.error = "invalid_grant") => x1 = x2

(***************************************************************************)
(* Concurrent authorize GET requests.  An invocation reads the registry    *)
(* (get_client) and INSERTs the auto-registered client in two separate     *)
(* statements; the invocation of another worker runs in between.           *)
(* client_id is the unique key of oauth_clients.                           *)
(***************************************************************************)
\* The store rejects an INSERT whose client_id a row already has.
unique_violation(client_id) == has_client(client_id)

\* GET /oauth/authorize up to the registration of an unknown client.
authorize_get_lookup(p, r) ==
    /\ pc[p] = "idle"
    /\ UNCHANGED <<now, ticks, users, oauth_clients, oauth_authorization_codes,
                   oauth_refresh_tokens, local, issued, mcp_vars, secret_vars, pkce>>
    /\ IF r.response_type # "code"
       THEN /\ Return(p, r, _error_response(400, "unsupported_response_type",
                                            "Only 'code' response type is supported"))
            /\ UNCHANGED pc
       ELSE IF r.redirect_uri = ""
       THEN /\ Return(p, r, _error_response(400, "invalid_request",
                                            "redirect_uri is required"))
            /\ UNCHANGED pc
       ELSE IF r.client_id = "" \/ ~has_client(r.client_id)
       THEN IF ~_is_allowed_auto_register_uri(r.redirect_uri)
            THEN /\ Return(p, r, _error_response(400, "invalid_request",
                                  "redirect_uri not allowed for auto-registration"))
                 /\ UNCHANGED pc
            ELSE /\ Return(p, r, Pending)
                 /\ pc' = [pc EXCEPT ![p] = "register_client"]
       ELSE /\ UNCHANGED pc
            /\ IF ~validate_redirect_uri(r.client_id, r.redirect_uri)
               THEN Return(p, r, _error_response(400, "invalid_request",
                                                 "Invalid redirect_uri for this client"))
               ELSE IF code_challenge_missing(r.code_challenge)
               THEN Return(p, r, _error_response(400, "invalid_request",
                                                 "code_challenge is required (PKCE)"))
               ELSE Return(p, r, login_form(r.client_id, r))

\* register_client and the rest of the handler.  The exception of a rejected
\* INSERT is no ValueError: the handler's except Exception answers it.
authorize_get_register(p) ==
    /\ pc[p] = "register_client"
    /\ pc' = [pc EXCEPT ![p] = "idle"]
    /\ UNCHANGED <<now, ticks, users, oauth_authorization_codes, oauth_refresh_tokens,
                   local, issued, mcp_vars, secret_vars, pkce>>
    /\ LET r == req[p]
           result == register_client("Auto-registered", {r.redirect_uri},
                                     {}, {}, "none", r.client_id)
       IN  IF result.error # ""
           THEN /\ Return(p, r, _error_response(400, "invalid_request", result.error))
                /\ UNCHANGED oauth_clients
           ELSE IF unique_violation(result.client_id)
           THEN /\ Return(p, r, _error_response(500, "server_error",
                                                "Internal server error"))
                /\ UNCHANGED oauth_clients
           ELSE /\ oauth_clients' =
                       (result.client_id :>
                           client_row(result.client_secret, {r.redirect_uri}, "none"))
                       @@ oauth_clients
                /\ IF code_challenge_missing(r.code_challenge)
                   THEN Return(p, r, _error_response(400, "invalid_request",
                                         "code_challenge is required (PKCE)"))
                   ELSE Return(p, r, login_form(result.client_id, r))

RaceAuthorizeGet ==
    {AuthorizeGet(client_id, redirect_uri, "code", s256("v1")) :
        client_id \in {"", "c_pub", "c_new"},
        redirect_uri \in {"https://app.example/cb", "https://claude.ai/cb",
                          "http://claude.ai/cb", ""}}
    \cup {AuthorizeGet("c_new", "https://claude.ai/cb", "token", "")}

RaceNext ==
    \/ \E p \in Workers : \E r \in RaceAuthorizeGet : authorize_get_lookup(p, r)
    \/ \E p \in Workers : authorize_get_register(p) /\ ClientsWithin(MaxClients)

RaceSpec == Init /\ [][RaceNext]_vars

(***************************************************************************)
(* C33: a unique-key violation at the store never ends an authorize GET    *)
(* in a generic server_error 500: the request that loses the race for the  *)
(* registration of a client_id is answered otherwise.                      *)
(***************************************************************************)
C33_DuplicateClientIsNoServerError ==
    \A p \in Workers :
        req[p].endpoint = "authorize_get" => resp[p].status # 500

(***************************************************************************)
(* Refresh-token rotation with a store that can fail.  Every statement is  *)
(* sent to the store on its own (no transaction); AuroraClient.execute     *)
(* re-raises the store's error, and the handler answers it with 500.       *)
(***************************************************************************)
\* refresh_token grant, after the revocation: the INSERT of
\* create_refresh_token raises; handler: except Exception.
refresh_grant_issue_raises(p) ==
    /\ pc[p] = "reissue"
    /\ pc' = [pc EXCEPT ![p] = "idle"]
    /\ local' = [local EXCEPT ![p] = NoRow]
    /\ resp' = [resp EXCEPT ![p] =
                   _error_response(500, "server_error", "Internal server error")]
    /\ UNCHANGED <<now, ticks, users, oauth_clients, oauth_authorization_codes,
                   oauth_refresh_tokens, req, issued, mcp_vars, secret_vars, pkce>>

\* authorization_code grant, after the code is marked used: a store call of
\* get_user or create_refresh_token raises; handler: except Exception.
code_grant_issue_raises(p) ==
    /\ pc[p] = "issue"
    /\ pc' = [pc EXCEPT ![p] = "idle"]
    /\ local' = [local EXCEPT ![p] = NoRow]
    /\ resp' = [resp EXCEPT ![p] =
                   _error_response(500, "server_error", "Internal server error")]
    /\ UNCHANGED <<now, ticks, users, oauth_clients, oauth_authorization_codes,
                   oauth_refresh_tokens, req, issued, mcp_vars, secret_vars, pkce>>

RotationToken ==
    {CodeRequest("code1", "v1", "c_pub", "")}
    \cup {RefreshRequest(token, "c_pub", "") : token \in {"rt1", "rt2"}}
    \cup {[RefreshRequest("rt1", "c_pub", "") EXCEPT !.grant_type = "password"]}

RotationNext ==
    \/ \E r \in SeqAuthorize : _handle_authorize_post(SeqWorker, r)
    \/ \E r \in RotationToken : _handle_token(SeqWorker, r)
    \/ code_grant_mark_used(SeqWorker)
    \/ code_grant_issue(SeqWorker)
    \/ refresh_grant_revoke(SeqWorker)
    \/ code_grant_issue_raises(SeqWorker)
    \/ refresh_grant_issue(SeqWorker)
    \/ refresh_grant_issue_raises(SeqWorker)
    \/ \E d \in SeqTicks : Tick(d)

RotationSpec == Init /\ [][RotationNext]_vars

\* A rotation of the token is between its revocation and its reissue.
RotationInFlight(h) ==
    \E p \in Workers : pc[p] = "reissue" /\ sha256(req[p].refresh_token) = h

\* A refresh exchange that presented the token delivered a stored successor.
SuccessorDelivered(h) ==
    \E i \in issued :
        /\ i.grant = "refresh_token"
        /\ sha256(i.presented) = h
        /\ sha256(i.refresh_token) \in DOMAIN oauth_refresh_tokens

(***************************************************************************)
(* C34: refresh-token rotation is all-or-nothing: once an exchange is      *)
(* over, a refresh token it revoked has a successor that was stored and    *)
(* returned to the client; no execution ends with the old token revoked    *)
(* and no successor delivered.                                             *)
(***************************************************************************)
C34_RotationIsAllOrNothing ==
    \A h \in RevokedTokens : RotationInFlight(h) \/ SuccessorDelivered(h)

\* An exchange of the code is between its first write and its response.
CodeExchangeInFlight(code) ==
    \E p \in Workers : pc[p] \in {"mark_used", "issue"} /\ req[p].code = code

\* A token request that presented the code or token was answered with tokens.
ExchangeSucceeded(grant, presented) ==
    \E i \in issued : i.grant = grant /\ i.presented = presented

(***************************************************************************)
(* C35: a token-endpoint request that returns an error response leaves     *)
(* the credential store unchanged: every code with used_at set, every      *)
(* refresh token with revoked_at set and every stored refresh token is the *)
(* work of an exchange that answered with tokens (or has not answered      *)
(* yet); in particular a failed authorization_code exchange never consumes *)
(* the code.                                                               *)
(***************************************************************************)
C35_ErrorResponsesWriteNothing ==
    /\ \A code \in DOMAIN oauth_authorization_codes :
           oauth_authorization_codes[code].used_at # NULL
               => CodeExchangeInFlight(code) \/ ExchangeSucceeded("authorization_code", code)
    /\ \A token \in RefreshTokens :
           sha256(token) \in RevokedTokens
               => RotationInFlight(sha256(token)) \/ ExchangeSucceeded("refresh_token", token)
    /\ \A token \in RefreshTokens :
           sha256(token) \in DOMAIN oauth_refresh_tokens
               => \E i \in issued : i.refresh_token = token

(***************************************************************************)
(* C36: an authorize GET that is rejected with an error response leaves    *)
(* the client registry unchanged: whichever check fails (unsupported       *)
(* response_type, missing redirect_uri, invalid redirect, missing          *)
(* code_challenge), the request registers no client.                       *)
(***************************************************************************)
C36_RejectedAuthorizeRegistersNothing ==
    [][(req'[SeqWorker].endpoint = "authorize_get" /\ resp'[SeqWorker].status >= 400)
           => oauth_clients' = oauth_clients]_vars

(***************************************************************************)
(* Deactivated users.  A tenant admin sets is_active of a user             *)
(* (PUT /users/{id}) between the requests of the OAuth endpoints.          *)
(***************************************************************************)
\* PUT /users/{id} with "is_active" in the body.
_update_user_is_active(user_id, is_active) ==
    /\ has_user(user_id)
    /\ users[user_id].is_active # is_active
    /\ users' = [users EXCEPT ![user_id].is_active = is_active]
    /\ UNCHANGED <<now, ticks, oauth_clients, oauth_authorization_codes,
                   oauth_refresh_tokens, pc, req, local, resp, issued, mcp_vars, secret_vars, pkce>>

DeactivateToken ==
    {CodeRequest(code, "v1", "c_pub", "") : code \in {"code1", "code2"}}
    \cup {RefreshRequest(token, "c_pub", "") : token \in {"rt1", "rt2"}}
    \cup {[RefreshRequest("rt1", "c_pub", "") EXCEPT !.grant_type = "password"]}

DeactivateNext ==
    \/ \E r \in SeqAuthorize : _handle_authorize_post(SeqWorker, r)
    \/ \E r \in DeactivateToken : _handle_token(SeqWorker, r)
    \/ code_grant_mark_used(SeqWorker)
    \/ code_grant_issue(SeqWorker)
    \/ refresh_grant_revoke(SeqWorker)
    \/ refresh_grant_issue(SeqWorker)
    \/ \E is_active \in BOOLEAN :
           pc[SeqWorker] = "idle" /\ _update_user_is_active("u1", is_active)

DeactivateSpec == Init /\ [][DeactivateNext]_vars

(***************************************************************************)
(* C37: once a user is deactivated, no later request issues anything for   *)
(* that user: every step in which a token pair is issued or an             *)
(* authorization code is stored (a login that succeeded) is taken for a    *)
(* user who is active when the request is made.                            *)
(***************************************************************************)
C37_DeactivatedUserGetsNoTokens ==
    [][/\ \A i \in issued' \ issued : users[i.access_token.sub].is_active
       /\ \A code \in DOMAIN oauth_authorization_codes' \ DOMAIN oauth_authorization_codes :
              users[oauth_authorization_codes'[code].user_id].is_active]_vars

(***************************************************************************)
(* Soft-disabled clients.  The only change a client record undergoes is    *)
(* that of is_active, made between the requests of the OAuth endpoints.    *)
(***************************************************************************)
\* is_active of the client is set to false.
disable_client(client_id) ==
    /\ has_client(client_id)
    /\ get_client(client_id).is_active
    /\ oauth_clients' = [oauth_clients EXCEPT ![client_id].is_active = FALSE]
    /\ UNCHANGED <<now, ticks, users, oauth_authorization_codes, oauth_refresh_tokens,
                   pc, req, local, resp, issued, mcp_vars, secret_vars, pkce>>

DisableToken ==
    {CodeRequest(code, "v1", "c_pub", "") : code \in Codes}
    \cup {CodeRequest(code, "v1", "c_conf", "s3cret") : code \in Codes}
    \cup {RefreshRequest("rt1", "c_pub", ""), RefreshRequest("rt1", "c_conf", "s3cret")}
    \cup {[RefreshRequest("rt1", "c_pub", "") EXCEPT !.grant_type = "password"]}

DisableNext ==
    \/ \E r \in ClientAuthorize : _handle_authorize_post(SeqWorker, r)
    \/ \E r \in DisableToken : _handle_token(SeqWorker, r)
    \/ code_grant_mark_used(SeqWorker)
    \/ code_grant_issue(SeqWorker)
    \/ refresh_grant_revoke(SeqWorker)
    \/ refresh_grant_issue(SeqWorker)
    \/ \E client_id \in {"c_pub", "c_conf"} :
           pc[SeqWorker] = "idle" /\ disable_client(client_id)

DisableSpec == Init /\ [][DisableNext]_vars

(***************************************************************************)
(* C38: once a client is soft-disabled, no later request made under its    *)
(* client_id results in issued tokens, for public and confidential clients *)
(* alike: every step that issues a token pair issues it to a client that   *)
(* is active when the request is made.                                     *)
(***************************************************************************)
C38_DisabledClientGetsNoTokens ==
    [][\A i \in issued' \ issued :
           get_client(i.access_token.client_id).is_active]_vars

\* The same for confidential clients alone, whose secret is verified.
DisabledConfidentialClientGetsNoTokens ==
    [][\A i \in issued' \ issued :
           get_client(i.access_token.client_id).client_secret_hash # ""
               => get_client(i.access_token.client_id).is_active]_vars

(***************************************************************************)
(* C39: every POST to the MCP endpoint that carries a valid access token   *)
(* ends in a well-formed reply, whatever its body (empty, invalid JSON,    *)
(* valid JSON that is not an object, an object without jsonrpc or          *)
(* method): an empty notification acknowledgement or a JSON-RPC object     *)
(* with result or error; no exception escapes the handler.                 *)
(***************************************************************************)
C39_EveryBodyGetsAWellFormedReply ==
    [][(Answered /\ HasValidToken(mcp_req'))
       => \/ mcp_resp'.status = 202 /\ mcp_resp'.body.kind = "empty"
          \/ mcp_resp'.status = 200 /\ mcp_resp'.body.kind \in {"result", "error"}]_vars

(***************************************************************************)
(* Code exchanges of two users under two clients: codes granted to u1      *)
(* under the public client with the default scope and to u2 under the      *)
(* confidential client with the scope read, exchanged by either client.    *)
(***************************************************************************)
ExchangeAuthorize ==
    {AuthorizeRequest("c_pub", <<>>, "a@x", "pw1"),
     AuthorizeRequest("c_conf", <<"read">>, "b@x", "pw2")}

ExchangeToken ==
    {CodeRequest(code, "v1", "c_pub", "") : code \in Codes}
    \cup {CodeRequest(code, "v1", "c_conf", "s3cret") : code \in Codes}
    \cup {[CodeRequest(code, "v1", "c_pub", "") EXCEPT !.basic = <<"c_conf", "s3cret">>] :
             code \in Codes}
    \cup {RefreshRequest("rt1", "c_pub", "")}
    \cup {[RefreshRequest("rt1", "c_pub", "") EXCEPT !.grant_type = "password"]}

ExchangeNext ==
    \/ \E r \in ExchangeAuthorize : _handle_authorize_post(SeqWorker, r)
    \/ \E r \in ExchangeToken : _handle_token(SeqWorker, r)
    \/ code_grant_mark_used(SeqWorker)
    \/ code_grant_issue(SeqWorker)
    \/ refresh_grant_revoke(SeqWorker)
    \/ refresh_grant_issue(SeqWorker)

ExchangeSpec == Init /\ [][ExchangeNext]_vars

(***************************************************************************)
(* C40: a successful authorization_code exchange issues an access token    *)
(* and a refresh token that both carry exactly the code's user, the code's *)
(* client_id and the code's granted scope, with the tenant of that user;   *)
(* the scope of the token response is the code's granted scope.            *)
(***************************************************************************)
C40_TokensCarryTheCodesGrant ==
    [][\A i \in issued' \ issued :
           i.grant = "authorization_code" =>
               LET auth_code == oauth_authorization_codes[i.presented]
                   row == oauth_refresh_tokens'[sha256(i.refresh_token)]
               IN  /\ i.access_token.token_type = "access_token"
                   /\ i.access_token.sub = auth_code.user_id
                   /\ i.access_token.client_id = auth_code.client_id
                   /\ i.access_token.scope = auth_code.scope
                   /\ i.access_token.tenant_id = users[auth_code.user_id].tenant_id
                   /\ sha256(i.refresh_token) \notin DOMAIN oauth_refresh_tokens
                   /\ row.user_id = auth_code.user_id
                   /\ row.client_id = auth_code.client_id
                   /\ row.scope = auth_code.scope
                   /\ resp'[SeqWorker].status = 200
                   /\ resp'[SeqWorker].access_token = i.access_token
                   /\ resp'[SeqWorker].refresh_token = i.refresh_token
                   /\ resp'[SeqWorker].scope = auth_code.scope]_vars

\* Codes of both users were exchanged: that of u2, granted the scope read
\* under the confidential client, and that of u1 under the public client.
C40_Witness ==
    /\ \E i \in issued :
           /\ i.grant = "authorization_code"
           /\ i.access_token.sub = "u2"
           /\ i.access_token.client_id = "c_conf"
           /\ i.scope = <<"read">>
    /\ \E i \in issued :
           /\ i.grant = "authorization_code"
           /\ i.access_token.sub = "u1"
           /\ i.access_token.client_id = "c_pub"

====
